---- MODULE Spec2Model ----
(***************************************************************************)
(* The OpenGL driver of the SDL gpu subsystem (src/gpu/opengl): the        *)
(* command recorder and replayer, pipeline binding, the viewport/scissor   *)
(* Y flip and the backbuffer resize flag.                                  *)
(*                                                                         *)
(* Memory is modelled as a heap of numbered allocations.  An allocation    *)
(* is never given the number of a released one, so a pointer to released   *)
(* memory stays recognisable.  Sizes are counted in 4-byte words, with the *)
(* LP64 layout of the structs of SDL_gpu_glcommand.h and 4 colour          *)
(* attachment slots per array.                                             *)
(***************************************************************************)
EXTENDS Integers, Sequences, FiniteSets, TLC

VARIABLES
    arena,           \* contents of the allocation cmdbuf->driverdata refers to
    heap,            \* allocator: live blocks, releases, duplicated labels
    driverdata,      \* cmdbuf->driverdata (an address; it may dangle)
    pass,            \* the SDL_GpuRenderPass/BlitPass object being encoded
    status,          \* life of the command buffer, result of the last call
    gl,              \* native context and what replay did to it
    dev,             \* OGL_GpuDevice fields of the backbuffer path
    win,             \* the platform window and its pending resize events
    rt,              \* render thread inside GetBackbuffer
    rsrc             \* the application's resources and the native objects

vars == <<arena, heap, driverdata, pass, status, gl, dev, win, rt, rsrc>>
cmdvars == <<arena, heap, driverdata, pass, status, gl>>
devvars == <<dev, win, rt>>

(***************************************************************************)
(* Bounds of the model.                                                    *)
(***************************************************************************)
\* INITIAL_CMD_BUFFER_CAPACITY is 128*1024 bytes in the code.  The model
\* starts from a smaller arena (in words) so that growth is reached after a
\* few records; like the code's, it holds the largest record.
InitialCapacity == 60
\* size_t is narrowed: the largest value a size computation can hold.
SizeMax == 1023
\* Records appended to one command buffer, sentinel excluded.
MaxCmds == 4
\* Colour attachment slots the model exercises (of the 4 in the arrays).
MaxSlots == 1
\* Label strings duplicated over the life of one command buffer.
MaxLabels == 3

NULL == 0

(***************************************************************************)
(* SDL_gpu_glcommand.h: command tags and record sizes.                     *)
(***************************************************************************)
CmdTypes ==
    {"CMD_NONE", "CMD_START_RENDER_PASS", "CMD_SET_PIPELINE", "CMD_SET_VIEWPORT",
     "CMD_SET_SCISSOR", "CMD_SET_BLEND_CONSTANT", "CMD_SET_BUFFER",
     "CMD_SET_SAMPLER", "CMD_SET_TEXTURE", "CMD_SET_MESH", "CMD_DRAW",
     "CMD_DRAW_INDEXED", "CMD_DRAW_INSTANCED", "CMD_DRAW_INSTANCED_INDEXED",
     "CMD_END_RENDER_PASS", "CMD_START_BLIT_PASS", "CMD_FILL_BUFFER",
     "CMD_GENERATE_MIPMAP", "CMD_COPY_TEXTURE", "CMD_COPY_BUFFER",
     "CMD_COPY_BUFFER_TO_TEXTURE_1D", "CMD_COPY_BUFFER_TO_TEXTURE_2D",
     "CMD_COPY_BUFFER_TO_TEXTURE_3D", "CMD_COPY_TEXTURE_TO_BUFFER_1D",
     "CMD_COPY_TEXTURE_TO_BUFFER_2D", "CMD_COPY_TEXTURE_TO_BUFFER_3D",
     "CMD_END_BLIT_PASS"}

\* sizeof of the struct the recorder and the replayer use for a tag, in words.
SizeOfCmd(type) ==
    CASE type = "CMD_NONE"                      -> 1    \* sizeof(GLCMD_TYPE)
      [] type = "CMD_START_RENDER_PASS"         -> 40
      [] type = "CMD_SET_PIPELINE"              -> 60
      [] type = "CMD_SET_VIEWPORT"              -> 10
      [] type = "CMD_SET_SCISSOR"               -> 5
      [] type = "CMD_SET_BLEND_CONSTANT"        -> 5
      [] type = "CMD_SET_BUFFER"                -> 8
      [] type = "CMD_SET_SAMPLER"               -> 3
      [] type = "CMD_SET_TEXTURE"               -> 3
      [] type = "CMD_SET_MESH"                  -> 8
      [] type = "CMD_DRAW"                      -> 4
      [] type = "CMD_DRAW_INDEXED"              -> 8
      [] type = "CMD_DRAW_INSTANCED"            -> 2
      [] type = "CMD_DRAW_INSTANCED_INDEXED"    -> 2
      [] type = "CMD_END_RENDER_PASS"           -> 2
      [] type = "CMD_START_BLIT_PASS"           -> 4
      [] type = "CMD_FILL_BUFFER"               -> 8
      [] type = "CMD_GENERATE_MIPMAP"           -> 2
      [] type = "CMD_COPY_TEXTURE"              -> 16
      [] type = "CMD_COPY_BUFFER"               -> 10
      [] type = "CMD_COPY_BUFFER_TO_TEXTURE_1D" -> 15
      [] type = "CMD_COPY_BUFFER_TO_TEXTURE_2D" -> 15
      [] type = "CMD_COPY_BUFFER_TO_TEXTURE_3D" -> 15
      [] type = "CMD_COPY_TEXTURE_TO_BUFFER_1D" -> 2
      [] type = "CMD_COPY_TEXTURE_TO_BUFFER_2D" -> 2
      [] type = "CMD_COPY_TEXTURE_TO_BUFFER_3D" -> 2
      [] type = "CMD_END_BLIT_PASS"             -> 2

\* sizeof(OPENGL_GpuCommandBuffer), the header in front of cmd[], in words.
HeaderSize == 14

\* OPENGL_GpuRenderPassData, zeroed by SDL_calloc.
ZeroPassData == [stride |-> 0, primitive |-> "GL_POINTS", render_targert_height |-> 0]

(***************************************************************************)
(* realloc and strdup.                                                     *)
(***************************************************************************)
ReallocOutcomes == {"inplace", "moved", "fail"}

\* SDL_strdup of a label: a fresh allocation, or NULL for no label.
StrDup(h, label) ==
    IF label = NULL
    THEN [ptr |-> NULL, heap |-> h]
    ELSE [ptr |-> h.label_next,
          heap |-> [h EXCEPT !.label_next = @ + 1,
                             !.labels = @ \cup {h.label_next}]]

\* The labels of L that can still be duplicated within the bound.
Within(L) == {l \in L : l = NULL \/ heap.label_next <= MaxLabels}

\* SDL_free of a block of the arena.
FreeBlock(h, addr) ==
    [h EXCEPT !.live = @ \ {addr}, !.freed = Append(@, addr)]

(***************************************************************************)
(* OPENGL_PushCommand: append one record, doubling the arena when it does  *)
(* not fit.  a: arena contents, h: heap, dd: cmdbuf->driverdata, p: the    *)
(* pass object, c: the record, r: what SDL_realloc does if it is called.   *)
(* err is the message the call sets ("" when it sets none).                *)
(***************************************************************************)
\* A failing append that has already doubled the capacity field, for
\* comparison.
PushResultDoubled(ret, err, a, h, dd, p) ==
    [ret |-> ret, err |-> err,
     arena |-> IF ret < 0 THEN [a EXCEPT !.capacity_cmd = @ * 2] ELSE a,
     heap |-> h, driverdata |-> dd, pass |-> p]

PushResult(ret, err, a, h, dd, p) ==
    [ret |-> ret, err |-> err, arena |-> a, heap |-> h, driverdata |-> dd, pass |-> p]

\* SDL_memcpy(&glcmdbuf->cmd[glcmdbuf->n_cmd], cmd, size_cmd); n_cmd = new_n
WriteRecord(a, h, c, size_cmd) ==
    [arena |-> [a EXCEPT !.cmd = Append(@, [off |-> a.n_cmd, size |-> size_cmd, rec |-> c]),
                         !.n_cmd = a.n_cmd + size_cmd],
     heap |-> [h EXCEPT !.overrun = @ \/ (a.n_cmd + size_cmd > a.capacity_cmd)]]

\* A growth that leaves the back-pointer where it was, for comparison.
LeaveRenderPass(a, p, new_addr) == p

\* The back-pointer of the pass being encoded follows the arena.
PatchRenderPass(a, p, new_addr) ==
    IF a.encoding_state.current_render_pass # NULL
          /\ a.encoding_state.current_render_pass = p.id
    THEN [p EXCEPT !.driverdata = new_addr]
    ELSE p

\* An overflow reported like a failed SDL_realloc, for comparison.
BareFailure == [ret |-> -1, err |-> ""]

\* return SDL_OutOfMemory();
SDL_OutOfMemory == [ret |-> -1, err |-> "Out of memory"]

PushCommand(a, h, dd, p, c, size_cmd, r) ==
    LET new_n == a.n_cmd + size_cmd
        new_capacity == a.capacity_cmd * 2
        total_size == new_capacity + HeaderSize
    IN  IF new_n > SizeMax
        THEN PushResult(SDL_OutOfMemory.ret, SDL_OutOfMemory.err, a, h, dd, p)
        ELSE IF new_n > a.capacity_cmd
        THEN IF new_capacity > SizeMax \/ total_size > SizeMax
             THEN PushResult(SDL_OutOfMemory.ret, SDL_OutOfMemory.err, a, h, dd, p)
             ELSE IF r = "fail"
             THEN PushResult(-1, "", a, h, dd, p)
             ELSE LET new_addr == IF r = "moved" THEN h.next_addr ELSE dd
                      h1 == IF r = "moved"
                            THEN [FreeBlock(h, dd) EXCEPT !.live = @ \cup {new_addr},
                                                          !.next_addr = @ + 1]
                            ELSE h
                      a1 == [a EXCEPT !.capacity_cmd = new_capacity]
                      p1 == PatchRenderPass(a1, p, new_addr)
                      w == WriteRecord(a1, h1, c, size_cmd)
                  IN  PushResult(0, "", w.arena, w.heap, new_addr, p1)
        ELSE LET w == WriteRecord(a, h, c, size_cmd)
             IN  PushResult(0, "", w.arena, w.heap, dd, p)

(***************************************************************************)
(* Enum translation (ToGLCompareFunc .. ToGLPrimitive).                    *)
(***************************************************************************)
ToGLCompareFunc(f) ==
    CASE f = "SDL_GPUCMPFUNC_NEVER"        -> "GL_NEVER"
      [] f = "SDL_GPUCMPFUNC_LESS"         -> "GL_LESS"
      [] f = "SDL_GPUCMPFUNC_EQUAL"        -> "GL_EQUAL"
      [] f = "SDL_GPUCMPFUNC_LESSEQUAL"    -> "GL_LEQUAL"
      [] f = "SDL_GPUCMPFUNC_GREATER"      -> "GL_GREATER"
      [] f = "SDL_GPUCMPFUNC_NOTEQUAL"     -> "GL_NOTEQUAL"
      [] f = "SDL_GPUCMPFUNC_GREATEREQUAL" -> "GL_GEQUAL"
      [] f = "SDL_GPUCMPFUNC_ALWAYS"       -> "GL_ALWAYS"
      [] OTHER                             -> "GL_NEVER"

ToGLStencilOp(op) ==
    CASE op = "SDL_GPUSTENCILOP_KEEP"           -> "GL_KEEP"
      [] op = "SDL_GPUSTENCILOP_ZERO"           -> "GL_ZERO"
      [] op = "SDL_GPUSTENCILOP_REPLACE"        -> "GL_REPLACE"
      [] op = "SDL_GPUSTENCILOP_INCREMENTCLAMP" -> "GL_INCR"
      [] op = "SDL_GPUSTENCILOP_DECREMENTCLAMP" -> "GL_DECR"
      [] op = "SDL_GPUSTENCILOP_INVERT"         -> "GL_INVERT"
      [] op = "SDL_GPUSTENCILOP_INCREMENTWRAP"  -> "GL_INCR_WRAP"
      [] op = "SDL_GPUSTENCILOP_DECREMENTWRAP"  -> "GL_DECR_WRAP"
      [] OTHER                                  -> "GL_ZERO"

ToGLBlendMode(b) ==
    CASE b = "SDL_GPUBLENDOP_ADD"             -> "GL_FUNC_ADD"
      [] b = "SDL_GPUBLENDOP_SUBTRACT"        -> "GL_FUNC_SUBTRACT"
      [] b = "SDL_GPUBLENDOP_REVERSESUBTRACT" -> "GL_FUNC_REVERSE_SUBTRACT"
      [] b = "SDL_GPUBLENDOP_MIN"             -> "GL_MIN"
      [] b = "SDL_GPUBLENDOP_MAX"             -> "GL_MAX"
      [] OTHER                                -> "GL_FUNC_ADD"

ToGLBlendFunction(f) ==
    CASE f = "SDL_GPUBLENDFACTOR_ZERO"                     -> "GL_ZERO"
      [] f = "SDL_GPUBLENDFACTOR_ONE"                      -> "GL_ONE"
      [] f = "SDL_GPUBLENDFACTOR_SOURCECOLOR"              -> "GL_SRC_COLOR"
      [] f = "SDL_GPUBLENDFACTOR_ONEMINUSSOURCECOLOR"      -> "GL_ONE_MINUS_SRC_COLOR"
      [] f = "SDL_GPUBLENDFACTOR_SOURCEALPHA"              -> "GL_SRC_ALPHA"
      [] f = "SDL_GPUBLENDFACTOR_ONEMINUSSOURCEALPHA"      -> "GL_ONE_MINUS_SRC_ALPHA"
      [] f = "SDL_GPUBLENDFACTOR_DESTINATIONCOLOR"         -> "GL_DST_COLOR"
      [] f = "SDL_GPUBLENDFACTOR_ONEMINUSDESTINATIONCOLOR" -> "GL_ONE_MINUS_DST_COLOR"
      [] f = "SDL_GPUBLENDFACTOR_DESTINATIONALPHA"         -> "GL_DST_ALPHA"
      [] f = "SDL_GPUBLENDFACTOR_ONEMINUSDESTINATIONALPHA" -> "GL_ONE_MINUS_DST_ALPHA"
      [] f = "SDL_GPUBLENDFACTOR_SOURCEALPHASATURATED"     -> "GL_SRC_ALPHA_SATURATE"
      [] f = "SDL_GPUBLENDFACTOR_BLENDCOLOR"               -> "GL_CONSTANT_COLOR"
      [] f = "SDL_GPUBLENDFACTOR_ONEMINUSBLENDCOLOR"       -> "GL_ONE_MINUS_CONSTANT_COLOR"
      [] f = "SDL_GPUBLENDFACTOR_BLENDALPHA"               -> "GL_CONSTANT_ALPHA"
      [] f = "SDL_GPUBLENDFACTOR_ONEMINUSBLENDALPHA"       -> "GL_ONE_MINUS_CONSTANT_ALPHA"
      [] f = "SDL_GPUBLENDFACTOR_SOURCE1COLOR"             -> "GL_SRC1_COLOR"
      [] f = "SDL_GPUBLENDFACTOR_ONEMINUSSOURCE1COLOR"     -> "GL_ONE_MINUS_SRC1_COLOR"
      [] f = "SDL_GPUBLENDFACTOR_SOURCE1ALPHA"             -> "GL_SRC1_ALPHA"
      [] f = "SDL_GPUBLENDFACTOR_ONEMINUSSOURCE1ALPHA"     -> "GL_ONE_MINUS_SRC1_ALPHA"
      [] OTHER                                             -> "GL_ZERO"

ToGLPrimitive(p) ==
    CASE p = "SDL_GPUPRIM_POINT"         -> "GL_POINTS"
      [] p = "SDL_GPUPRIM_LINE"          -> "GL_LINES"
      [] p = "SDL_GPUPRIM_LINESTRIP"     -> "GL_LINE_STRIP"
      [] p = "SDL_GPUPRIM_TRIANGLE"      -> "GL_TRIANGLES"
      [] p = "SDL_GPUPRIM_TRIANGLESTRIP" -> "GL_TRIANGLE_STRIP"
      [] OTHER                           -> "GL_POINTS"

(***************************************************************************)
(* Small helpers.                                                          *)
(***************************************************************************)
SetMin(S) == CHOOSE m \in S : \A x \in S : m <= x

Slots == 0 .. (MaxSlots - 1)

\* The bytes of a record after SDL_memset(&cmd, 0, sizeof(cmd)), per slot.
\* "0" is the GLenum whose bits are all zero.
ZeroBlend ==
    [enable |-> FALSE, rgb_mode |-> "0", alpha_mode |-> "0", func_rgb_src |-> "0",
     func_alpha_src |-> "0", func_rgb_dst |-> "0", func_alpha_dst |-> "0"]
ZeroMask == [red |-> FALSE, green |-> FALSE, blue |-> FALSE, alpha |-> FALSE]

\* The slot numbers 0 .. n-1 in order, as a sequence.
SlotSeq(n) == [i \in 1 .. n |-> i - 1]

(***************************************************************************)
(* Objects of the API layer that the driver reads.                         *)
(***************************************************************************)
\* A texture pointer that is 0 (no texture bound to the slot).
NoTexture == [driverdata |-> 0, height |-> 0]

\* GLsizei render_target_height = INT32_MAX
INT32_MAX == 2147483647

\* The result a call leaves in the command buffer's status: the value it
\* returned and the error message, which stays until the next one is set.
\* failed remembers that some recording call returned an error, args keeps
\* the rectangle a viewport or scissor call was given, and targets the
\* attachments the last StartRenderPass was given.
Returned(op, ret, err, phase) ==
    [phase |-> phase, op |-> op, ret |-> ret,
     err |-> IF err # "" THEN err ELSE status.err,
     failed |-> status.failed \/ (ret < 0 /\ op # "SubmitCommandBuffer"),
     args |-> [x |-> 0, y |-> 0, w |-> 0, h |-> 0],
     targets |-> status.targets]

\* The pass data a call reaches through pass->driverdata.  Through a pointer
\* into a released block the read yields whatever the block holds by then.
PassDataValid(p, dd, h) == p.driverdata = dd /\ dd \in h.live
ReadPassData(a, p, dd, h) ==
    IF PassDataValid(p, dd, h)
    THEN {a.encoding_state.currrent_render_pass_data}
    ELSE {a.encoding_state.currrent_render_pass_data, ZeroPassData}

(***************************************************************************)
(* OPENGL_GpuCreateCommandBuffer: a zeroed header and an empty arena.      *)
(***************************************************************************)
\* A command buffer whose first arena is smaller than the largest record,
\* for comparison.
SmallCommandBuffer ==
    [encoding_state |-> [currrent_render_pass_data |-> ZeroPassData,
                         current_render_pass |-> NULL],
     exec_state |-> [n_color_attachment |-> 0, pop_pass_label |-> FALSE,
                     pop_pipeline_label |-> FALSE, fbo_glid |-> 0],
     capacity_cmd |-> SizeOfCmd("CMD_SET_BLEND_CONSTANT") * 4,
     n_cmd |-> 0,
     cmd |-> <<>>]

CreateCommandBuffer ==
    [encoding_state |-> [currrent_render_pass_data |-> ZeroPassData,
                         current_render_pass |-> NULL],
     exec_state |-> [n_color_attachment |-> 0, pop_pass_label |-> FALSE,
                     pop_pipeline_label |-> FALSE, fbo_glid |-> 0],
     capacity_cmd |-> InitialCapacity,
     n_cmd |-> 0,
     cmd |-> <<>>]

(***************************************************************************)
(* OPENGL_GpuStartRenderPass.  ca: the colour attachment descriptions (a   *)
(* sequence, slot i is ca[i+1]); da, sa: the depth and stencil attachment  *)
(* descriptions, <<>> for a null pointer and <<d>> otherwise.              *)
(***************************************************************************)
ColorBound(ca, i) == i < Len(ca) /\ ca[i + 1].texture # NoTexture

InvalidateBuffers(ca, da, sa) ==
    LET undef(i) == ColorBound(ca, i)
                    /\ ca[i + 1].color_init = "SDL_GPUPASSINIT_UNDEFINED"
        colour == [k \in 1 .. Len(SelectSeq(SlotSeq(Len(ca)), undef)) |->
                     <<"GL_COLOR_ATTACHMENT", SelectSeq(SlotSeq(Len(ca)), undef)[k]>>]
        depth == IF da # <<>> /\ da[1].depth_init = "SDL_GPUPASSINIT_UNDEFINED"
                 THEN << <<"GL_DEPTH_ATTACHMENT">> >> ELSE <<>>
        stencil == IF sa # <<>> /\ sa[1].stencil_init = "SDL_GPUPASSINIT_UNDEFINED"
                   THEN << <<"GL_STENCIL_ATTACHMENT">> >> ELSE <<>>
    IN  colour \o depth \o stencil

RenderTargetHeight(ca, da, sa) ==
    SetMin({INT32_MAX}
           \cup {ca[i + 1].texture.height : i \in {j \in Slots : ColorBound(ca, j)}}
           \cup {da[k].texture.height : k \in DOMAIN da}
           \cup {sa[k].texture.height : k \in DOMAIN sa})

StartRenderPassCmd(label, ca, da, sa) ==
    [type |-> "CMD_START_RENDER_PASS",
     n_color_attachments |-> Len(ca),
     color_attachments |->
        [i \in Slots |-> IF ColorBound(ca, i) THEN ca[i + 1].texture.driverdata ELSE 0],
     depth_attachment |-> IF da # <<>> THEN da[1].texture.driverdata ELSE 0,
     stencil_attachment |-> IF sa # <<>> THEN sa[1].texture.driverdata ELSE 0,
     draw_buffers |->
        [i \in Slots |-> IF ColorBound(ca, i)
                         THEN <<"GL_COLOR_ATTACHMENT", i>> ELSE <<"GL_NONE">>],
     n_invalid |-> Len(InvalidateBuffers(ca, da, sa)),
     invalidate_buffers |-> InvalidateBuffers(ca, da, sa),
     clear_color |->
        [i \in Slots |-> IF ColorBound(ca, i)
                         THEN IF ca[i + 1].color_init = "SDL_GPUPASSINIT_CLEAR"
                              THEN ca[i + 1].clear_red ELSE -1
                         ELSE 0],
     clear_depth_value |->
        IF da # <<>>
        THEN IF da[1].depth_init = "SDL_GPUPASSINIT_CLEAR" THEN da[1].clear_depth ELSE -1
        ELSE 0,
     clear_stencil |-> sa # <<>> /\ sa[1].stencil_init = "SDL_GPUPASSINIT_CLEAR",
     clear_stencil_value |->
        IF sa # <<>> /\ sa[1].stencil_init = "SDL_GPUPASSINIT_CLEAR"
        THEN sa[1].clear_stencil ELSE 0,
     pass_label |-> label]

\* The driver's routine, on a pass object the application has just made.
OPENGL_GpuStartRenderPass(B, Labels, Colors, Depths, Stencils, R) ==
    /\ status.phase = "recording"
    /\ Len(arena.cmd) < B
    /\ \E label \in Within(Labels), ca \in Colors, da \in Depths, sa \in Stencils, r \in R :
         LET s == StrDup(heap, label)
             cmd == StartRenderPassCmd(s.ptr, ca, da, sa)
             newpass == [kind |-> "render", id |-> pass.id + 1, driverdata |-> NULL,
                         session |-> ZeroPassData]
             res == PushCommand(arena, s.heap, driverdata, newpass, cmd,
                                SizeOfCmd("CMD_START_RENDER_PASS"), r)
             pass_data == [res.arena.encoding_state.currrent_render_pass_data
                             EXCEPT !.render_targert_height = RenderTargetHeight(ca, da, sa)]
         IN  IF res.ret < 0
             THEN /\ heap' = res.heap
                  /\ status' = Returned("StartRenderPass", -1, res.err, "recording")
                  /\ UNCHANGED <<arena, driverdata, pass>>
             ELSE /\ arena' = [res.arena EXCEPT
                                 !.encoding_state.current_render_pass = newpass.id,
                                 !.encoding_state.currrent_render_pass_data = pass_data]
                  /\ heap' = res.heap
                  /\ driverdata' = res.driverdata
                  /\ pass' = [newpass EXCEPT !.driverdata = res.driverdata,
                                             !.session = pass_data]
                  /\ status' = [Returned("StartRenderPass", 0, "", "recording")
                                  EXCEPT !.targets = [ca |-> ca, da |-> da, sa |-> sa]]
    /\ UNCHANGED <<gl, dev, win, rt, rsrc>>

\* StartRenderPass while no pass is open.
StartRenderPass(B, Labels, Colors, Depths, Stencils, R) ==
    /\ pass.kind = "none"
    /\ OPENGL_GpuStartRenderPass(B, Labels, Colors, Depths, Stencils, R)

\* StartRenderPass while a render pass has been started and not ended.
NestedStartRenderPass(B, Labels, Colors, Depths, Stencils, R) ==
    /\ pass.kind = "render"
    /\ arena.encoding_state.current_render_pass # NULL
    /\ OPENGL_GpuStartRenderPass(B, Labels, Colors, Depths, Stencils, R)

(***************************************************************************)
(* OPENGL_GpuSetRenderPassPipeline.                                        *)
(***************************************************************************)
BlendOf(desc) ==
    IF desc.blending_enabled
    THEN [enable |-> TRUE,
          rgb_mode |-> ToGLBlendMode(desc.rgb_blend_op),
          alpha_mode |-> ToGLBlendMode(desc.alpha_blend_op),
          func_rgb_src |-> ToGLBlendFunction(desc.rgb_src_blend_factor),
          func_alpha_src |-> ToGLBlendFunction(desc.alpha_src_blend_factor),
          func_rgb_dst |-> ToGLBlendFunction(desc.rgb_dst_blend_factor),
          func_alpha_dst |-> ToGLBlendFunction(desc.alpha_dst_blend_factor)]
    ELSE ZeroBlend

WritemaskOf(desc) ==
    [red |-> desc.writemask_enabled_red, green |-> desc.writemask_enabled_green,
     blue |-> desc.writemask_enabled_blue, alpha |-> desc.writemask_enabled_alpha]

StencilOf(side) ==
    [func |-> ToGLCompareFunc(side.stencil_function),
     ref |-> side.stencil_reference,
     read_mask |-> side.stencil_read_mask,
     write_mask |-> side.stencil_write_mask,
     op_sfail |-> ToGLStencilOp(side.stencil_fail),
     op_dpfail |-> ToGLStencilOp(side.depth_fail),
     op_dppass |-> ToGLStencilOp(side.depth_and_stencil_pass)]

SetPipelineCmd(label, pipeline) ==
    LET desc == pipeline.desc
        cull == desc.cull_face # "SDL_GPUCULLFACE_NONE"
    IN  [type |-> "CMD_SET_PIPELINE",
         vao |-> pipeline.driverdata.vao,
         program |-> pipeline.driverdata.program,
         blend |-> [i \in Slots |-> IF i < desc.num_color_attachments
                                    THEN BlendOf(desc.color_attachments[i + 1])
                                    ELSE ZeroBlend],
         writemask |-> [i \in Slots |-> IF i < desc.num_color_attachments
                                        THEN WritemaskOf(desc.color_attachments[i + 1])
                                        ELSE ZeroMask],
         depth_mask |-> desc.depth_write_enabled,
         depth_func |-> ToGLCompareFunc(desc.depth_function),
         depth_bias_scale |-> desc.depth_bias_scale,
         depth_bias |-> desc.depth_bias,
         depth_bias_clamp |-> desc.depth_bias_clamp,
         stencil_front |-> StencilOf(desc.depth_stencil_front),
         stencil_back |-> StencilOf(desc.depth_stencil_back),
         polygon_mode |-> IF desc.fill_mode = "SDL_GPUFILL_FILL" THEN "GL_FILL" ELSE "GL_LINE",
         enable_cull_face |-> cull,
         front_face |-> IF ~cull THEN "0"
                        ELSE IF desc.front_face = "SDL_GPUFRONTFACE_COUNTER_CLOCKWISE"
                             THEN "GL_CCW" ELSE "GL_CW",
         cull_face |-> IF ~cull THEN "0"
                       ELSE IF desc.cull_face = "SDL_GPUCULLFACE_BACK"
                            THEN "GL_BACK" ELSE "GL_FRONT",
         pipeline_label |-> label]

\* pass_data->primitive = ...; pass_data->stride = ...  A store through a
\* pointer into a released block does not reach the arena.
WritePassData(a, h, p, dd, primitive, stride) ==
    IF PassDataValid(p, dd, h)
    THEN [arena |-> [a EXCEPT
                       !.encoding_state.currrent_render_pass_data.primitive = primitive,
                       !.encoding_state.currrent_render_pass_data.stride = stride],
          heap |-> h]
    ELSE [arena |-> a, heap |-> [h EXCEPT !.wild = TRUE]]

SetRenderPassPipeline(B, Pipelines, R) ==
    /\ status.phase = "recording"
    /\ pass.kind = "render"
    /\ Len(arena.cmd) < B
    /\ \E pipeline \in {p \in Pipelines : p.desc.label \in Within({p.desc.label})}, r \in R :
         LET s == StrDup(heap, pipeline.desc.label)
             cmd == SetPipelineCmd(s.ptr, pipeline)
             primitive == ToGLPrimitive(pipeline.desc.primitive)
             stride == pipeline.desc.vertices[1].stride
             w == WritePassData(arena, s.heap, pass, driverdata, primitive, stride)
             res == PushCommand(w.arena, w.heap, driverdata, pass, cmd,
                                SizeOfCmd("CMD_SET_PIPELINE"), r)
         IN  /\ pipeline.driverdata.vao # 0
             /\ pipeline.driverdata.program # 0
             /\ arena' = res.arena
             /\ heap' = res.heap
             /\ driverdata' = res.driverdata
             /\ pass' = [res.pass EXCEPT !.session.primitive = primitive,
                                         !.session.stride = stride]
             /\ status' = Returned("SetRenderPassPipeline", res.ret, res.err, "recording")
    /\ UNCHANGED <<gl, dev, win, rt, rsrc>>

(***************************************************************************)
(* OPENGL_GpuSetRenderPassViewport / OPENGL_GpuSetRenderPassScissor.       *)
(* A double or a GLfloat is a count of 1/Unit steps, so that fractional    *)
(* coordinates exist; an integer is a count of whole pixels.               *)
(***************************************************************************)
Unit == 2

\* Every multiple of 1/Unit of magnitude up to FloatExact is a GLfloat.
FloatExact == 8388608

\* double -> GLfloat (24-bit significand): exact up to FloatExact; above it
\* (and below 2 * FloatExact) only whole numbers exist, ties go to even.
ToGLfloat(v) ==
    LET m == IF v >= 0 THEN v ELSE - v
        q == m \div Unit
        rounded == IF m % Unit = 0 THEN m
                   ELSE IF q % 2 = 0 THEN q * Unit ELSE (q + 1) * Unit
    IN  IF m <= FloatExact * Unit THEN v
        ELSE IF v >= 0 THEN rounded ELSE - rounded

\* GLfloat -> GLint in a call: the fraction is discarded, towards zero.
ToGLint(v) == IF v >= 0 THEN v \div Unit ELSE - ((- v) \div Unit)

SetViewportCmd(pass_data, x, y, width, height) ==
    [type |-> "CMD_SET_VIEWPORT",
     x |-> ToGLfloat(x),
     y |-> ToGLfloat(pass_data.render_targert_height * Unit - y - height),
     w |-> ToGLfloat(width),
     h |-> ToGLfloat(height)]

SetRenderPassViewport(B, Rects, R) ==
    /\ status.phase = "recording"
    /\ pass.kind = "render"
    /\ Len(arena.cmd) < B
    /\ \E v \in Rects, r \in R, pass_data \in ReadPassData(arena, pass, driverdata, heap) :
         LET cmd == SetViewportCmd(pass_data, v.x, v.y, v.w, v.h)
             res == PushCommand(arena, heap, driverdata, pass, cmd,
                                SizeOfCmd("CMD_SET_VIEWPORT"), r)
         IN  /\ arena' = res.arena
             /\ heap' = res.heap
             /\ driverdata' = res.driverdata
             /\ pass' = res.pass
             /\ status' = [Returned("SetRenderPassViewport", res.ret, res.err, "recording")
                             EXCEPT !.args = v]
    /\ UNCHANGED <<gl, dev, win, rt, rsrc>>

\* The subtraction is done on 32-bit unsigned values and stored in a GLint:
\* the stored value is the signed difference.
SetScissorCmd(pass_data, x, y, width, height) ==
    [type |-> "CMD_SET_SCISSOR",
     x |-> x,
     y |-> pass_data.render_targert_height - y - height,
     w |-> width,
     h |-> height]

SetRenderPassScissor(B, Rects, R) ==
    /\ status.phase = "recording"
    /\ pass.kind = "render"
    /\ Len(arena.cmd) < B
    /\ \E v \in Rects, r \in R, pass_data \in ReadPassData(arena, pass, driverdata, heap) :
         LET cmd == SetScissorCmd(pass_data, v.x, v.y, v.w, v.h)
             res == PushCommand(arena, heap, driverdata, pass, cmd,
                                SizeOfCmd("CMD_SET_SCISSOR"), r)
         IN  /\ arena' = res.arena
             /\ heap' = res.heap
             /\ driverdata' = res.driverdata
             /\ pass' = res.pass
             /\ status' = [Returned("SetRenderPassScissor", res.ret, res.err, "recording")
                             EXCEPT !.args = v]
    /\ UNCHANGED <<gl, dev, win, rt, rsrc>>

(***************************************************************************)
(* OPENGL_GpuSetRenderPassVertexBuffer, OPENGL_GpuDraw,                    *)
(* OPENGL_GpuDrawIndexed, OPENGL_GpuEndRenderPass.                         *)
(***************************************************************************)
SetRenderPassVertexBuffer(B, Buffers, R) ==
    /\ status.phase = "recording"
    /\ pass.kind = "render"
    /\ Len(arena.cmd) < B
    /\ \E b \in Buffers, r \in R :
         LET cmd == [type |-> "CMD_SET_BUFFER", index |-> b.index,
                     buffer |-> b.buffer.driverdata, offset |-> b.offset,
                     size |-> b.buffer.buflen - b.offset]
             res == PushCommand(arena, heap, driverdata, pass, cmd,
                                SizeOfCmd("CMD_SET_BUFFER"), r)
         IN  /\ cmd.buffer # 0
             /\ arena' = res.arena
             /\ heap' = res.heap
             /\ driverdata' = res.driverdata
             /\ pass' = res.pass
             /\ status' = Returned("SetRenderPassVertexBuffer", res.ret, res.err, "recording")
    /\ UNCHANGED <<gl, dev, win, rt, rsrc>>

\* OPENGL_GpuSetMeshBuffer.  The stride is the one kept in the pass data; a
\* null buffer or a zero stride stops the program at the SDL_assert.
SetMeshBuffer(B, Buffers, Offsets, Indexes, R) ==
    /\ status.phase = "recording"
    /\ pass.kind = "render"
    /\ Len(arena.cmd) < B
    /\ \E buffer \in Buffers, offset \in Offsets, index \in Indexes, r \in R,
          pass_data \in ReadPassData(arena, pass, driverdata, heap) :
         LET cmd == [type |-> "CMD_SET_MESH", index |-> index,
                     buffer |-> buffer.driverdata, offset |-> offset,
                     stride |-> pass_data.stride]
             res == PushCommand(arena, heap, driverdata, pass, cmd,
                                SizeOfCmd("CMD_SET_MESH"), r)
         IN  IF cmd.buffer = 0 \/ cmd.stride = 0
             THEN /\ status' = Returned("SetMeshBuffer", -1, "Assertion failure", "asserted")
                  /\ UNCHANGED <<arena, heap, driverdata, pass>>
             ELSE /\ arena' = res.arena
                  /\ heap' = res.heap
                  /\ driverdata' = res.driverdata
                  /\ pass' = res.pass
                  /\ status' = Returned("SetMeshBuffer", res.ret, res.err, "recording")
    /\ UNCHANGED <<gl, dev, win, rt, rsrc>>

Draw(B, Ranges, R) ==
    /\ status.phase = "recording"
    /\ pass.kind = "render"
    /\ Len(arena.cmd) < B
    /\ \E d \in Ranges, r \in R, pass_data \in ReadPassData(arena, pass, driverdata, heap) :
         LET cmd == [type |-> "CMD_DRAW", mode |-> pass_data.primitive,
                     first |-> d.vertex_start, count |-> d.vertex_count]
             res == PushCommand(arena, heap, driverdata, pass, cmd,
                                SizeOfCmd("CMD_DRAW"), r)
         IN  /\ arena' = res.arena
             /\ heap' = res.heap
             /\ driverdata' = res.driverdata
             /\ pass' = res.pass
             /\ status' = Returned("Draw", res.ret, res.err, "recording")
    /\ UNCHANGED <<gl, dev, win, rt, rsrc>>

ToGLindexType(t) ==
    CASE t = "SDL_GPUINDEXTYPE_UINT16" -> "GL_UNSIGNED_SHORT"
      [] t = "SDL_GPUINDEXTYPE_UINT32" -> "GL_UNSIGNED_INT"
      [] OTHER                         -> "0"

DrawIndexed(B, Ranges, R) ==
    /\ status.phase = "recording"
    /\ pass.kind = "render"
    /\ Len(arena.cmd) < B
    /\ \E d \in Ranges, r \in R, pass_data \in ReadPassData(arena, pass, driverdata, heap) :
         LET cmd == [type |-> "CMD_DRAW_INDEXED",
                     index_buffer |-> d.index_buffer.driverdata,
                     mode |-> pass_data.primitive,
                     count |-> d.index_count,
                     index_type |-> ToGLindexType(d.index_type),
                     indices |-> d.index_offset]
             res == PushCommand(arena, heap, driverdata, pass, cmd,
                                SizeOfCmd("CMD_DRAW_INDEXED"), r)
         IN  /\ cmd.index_buffer # 0
             /\ arena' = res.arena
             /\ heap' = res.heap
             /\ driverdata' = res.driverdata
             /\ pass' = res.pass
             /\ status' = Returned("DrawIndexed", res.ret, res.err, "recording")
    /\ UNCHANGED <<gl, dev, win, rt, rsrc>>

\* The pass object is closed by the caller whatever the append returns.
EndRenderPass(B, R) ==
    /\ status.phase = "recording"
    /\ pass.kind = "render"
    /\ Len(arena.cmd) < B
    /\ \E r \in R :
         LET a0 == [arena EXCEPT !.encoding_state.current_render_pass = NULL]
             cmd == [type |-> "CMD_END_RENDER_PASS"]
             res == PushCommand(a0, heap, driverdata, pass, cmd,
                                SizeOfCmd("CMD_END_RENDER_PASS"), r)
         IN  /\ arena' = res.arena
             /\ heap' = res.heap
             /\ driverdata' = res.driverdata
             /\ pass' = [res.pass EXCEPT !.kind = "none"]
             /\ status' = Returned("EndRenderPass", res.ret, res.err, "recording")
    /\ UNCHANGED <<gl, dev, win, rt, rsrc>>

(***************************************************************************)
(* OPENGL_GpuStartBlitPass, CopyBuffer, OPENGL_GpuEndBlitPass.             *)
(***************************************************************************)
StartBlitPass(B, Labels, R) ==
    /\ status.phase = "recording"
    /\ pass.kind = "none"
    /\ Len(arena.cmd) < B
    /\ \E label \in Within(Labels), r \in R :
         LET s == StrDup(heap, label)
             cmd == [type |-> "CMD_START_BLIT_PASS", pass_label |-> s.ptr]
             res == PushCommand(arena, s.heap, driverdata, pass, cmd,
                                SizeOfCmd("CMD_START_BLIT_PASS"), r)
         IN  /\ arena' = res.arena
             /\ heap' = res.heap
             /\ driverdata' = res.driverdata
             /\ pass' = IF res.ret < 0 THEN pass
                        ELSE [kind |-> "blit", id |-> pass.id + 1, driverdata |-> NULL,
                              session |-> ZeroPassData]
             /\ status' = Returned("StartBlitPass", res.ret, res.err, "recording")
    /\ UNCHANGED <<gl, dev, win, rt, rsrc>>

CopyBuffer(B, Copies, R) ==
    /\ status.phase = "recording"
    /\ pass.kind = "blit"
    /\ Len(arena.cmd) < B
    /\ \E c \in Copies, r \in R :
         LET cmd == [type |-> "CMD_COPY_BUFFER", src |-> c.srcbuf, dst |-> c.dstbuf,
                     src_offset |-> c.srcoffset, dst_offset |-> c.dstoffset,
                     size |-> c.length]
             res == PushCommand(arena, heap, driverdata, pass, cmd,
                                SizeOfCmd("CMD_COPY_BUFFER"), r)
         IN  /\ c.srcbuf # 0
             /\ c.dstbuf # 0
             /\ arena' = res.arena
             /\ heap' = res.heap
             /\ driverdata' = res.driverdata
             /\ pass' = res.pass
             /\ status' = Returned("CopyBuffer", res.ret, res.err, "recording")
    /\ UNCHANGED <<gl, dev, win, rt, rsrc>>

\* OPENGL_GpuDrawInstanced: the body is a return of 0.
DrawInstanced ==
    /\ status.phase = "recording"
    /\ pass.kind = "render"
    /\ status' = Returned("DrawInstanced", 0, "", "recording")
    /\ UNCHANGED <<arena, heap, driverdata, pass, gl, dev, win, rt, rsrc>>

\* OPENGL_GpuDrawInstancedIndexed: the body is a return of 0.
DrawInstancedIndexed ==
    /\ status.phase = "recording"
    /\ pass.kind = "render"
    /\ status' = Returned("DrawInstancedIndexed", 0, "", "recording")
    /\ UNCHANGED <<arena, heap, driverdata, pass, gl, dev, win, rt, rsrc>>

\* A call that reports success.
ReturnSuccess == [ret |-> 0, err |-> ""]

\* return SDL_Unsupported()
SDL_Unsupported == [ret |-> -1, err |-> "That operation is not supported"]

\* OPENGL_GpuCopyFromTextureToBuffer: the body is a return of SDL_Unsupported().
CopyFromTextureToBuffer ==
    /\ status.phase = "recording"
    /\ pass.kind = "blit"
    /\ status' = Returned("CopyFromTextureToBuffer", SDL_Unsupported.ret,
                          SDL_Unsupported.err, "recording")
    /\ UNCHANGED <<arena, heap, driverdata, pass, gl, dev, win, rt, rsrc>>

EndBlitPass(B, R) ==
    /\ status.phase = "recording"
    /\ pass.kind = "blit"
    /\ Len(arena.cmd) < B
    /\ \E r \in R :
         LET cmd == [type |-> "CMD_END_BLIT_PASS"]
             res == PushCommand(arena, heap, driverdata, pass, cmd,
                                SizeOfCmd("CMD_END_BLIT_PASS"), r)
         IN  /\ arena' = res.arena
             /\ heap' = res.heap
             /\ driverdata' = res.driverdata
             /\ pass' = [res.pass EXCEPT !.kind = "none"]
             /\ status' = Returned("EndBlitPass", res.ret, res.err, "recording")
    /\ UNCHANGED <<gl, dev, win, rt, rsrc>>

(***************************************************************************)
(* The native context.  state is the part of the OpenGL state the replay   *)
(* routines set, as left by OPENGL_GpuCreateDevice (blend, scissor test    *)
(* and stencil test enabled, everything else at the OpenGL default).       *)
(***************************************************************************)
FullMask == [red |-> TRUE, green |-> TRUE, blue |-> TRUE, alpha |-> TRUE]

StencilDefault ==
    [func |-> "GL_ALWAYS", ref |-> 0, read_mask |-> 255, write_mask |-> 255,
     op_sfail |-> "GL_KEEP", op_dpfail |-> "GL_KEEP", op_dppass |-> "GL_KEEP"]

CreateDeviceState ==
    [blend |-> [i \in Slots |->
                  [enable |-> TRUE, rgb_mode |-> "GL_FUNC_ADD", alpha_mode |-> "GL_FUNC_ADD",
                   src_rgb |-> "GL_ONE", dst_rgb |-> "GL_ZERO",
                   src_alpha |-> "GL_ONE", dst_alpha |-> "GL_ZERO"]],
     color_mask |-> [i \in Slots |-> FullMask],
     depth_mask |-> TRUE,
     depth_func |-> "GL_LESS",
     polygon_offset |-> [factor |-> 0, units |-> 0, clamp |-> 0],
     stencil_front |-> StencilDefault,
     stencil_back |-> StencilDefault,
     polygon_mode |-> "GL_FILL",
     cull_enable |-> FALSE,
     front_face |-> "GL_CCW",
     cull_face |-> "GL_BACK",
     scissor_test |-> TRUE,
     stencil_test |-> TRUE,
     viewport |-> [x |-> 0, y |-> 0, w |-> 0, h |-> 0],
     scissor |-> [x |-> 0, y |-> 0, w |-> 0, h |-> 0],
     vao |-> 0,
     program |-> 0,
     draw_framebuffer |-> 0]

CreateDeviceContext ==
    [state |-> CreateDeviceState,
     calls |-> <<>>,          \* native calls made, in order
     log |-> <<>>,            \* records replayed, with the state each one left
     debug_depth |-> 0,       \* depth of the debug group stack
     groups |-> <<>>,         \* messages of the open debug groups, innermost last
     uploads |-> <<>>,        \* texture rows written from a pixel unpack buffer
     fbo_next |-> 2,          \* next framebuffer name glCreateFramebuffers gives
     fbos |-> {1},            \* framebuffer objects that exist: the backbuffer's
     fbo_failed |-> FALSE,    \* a framebuffer could not be created or completed
     stale_read |-> FALSE]    \* replay read a released block

\* One native call: it is logged and changes the context state.
GLCall(g, c) == [g EXCEPT !.calls = Append(@, c)]

\* glPushDebugGroup / glPopDebugGroup
PushDebugGroup(g, msg) ==
    [GLCall(g, <<"glPushDebugGroup", msg>>) EXCEPT !.debug_depth = @ + 1,
                                                   !.groups = Append(@, msg)]
PopDebugGroup(g) ==
    [GLCall(g, <<"glPopDebugGroup">>)
       EXCEPT !.debug_depth = @ - 1,
              !.groups = IF @ = <<>> THEN @ ELSE SubSeq(@, 1, Len(@) - 1)]

\* SDL_free(label) in a replay routine; label_frees keeps every pointer
\* handed to SDL_free, NULL included.
FreeLabel(h, label) ==
    [h EXCEPT !.label_frees = Append(@, label), !.labels = @ \ {label}]

\* glBlendFuncSeparatei(buf, srcRGB, dstRGB, srcAlpha, dstAlpha)
glBlendFuncSeparatei(g, buf, srcRGB, dstRGB, srcAlpha, dstAlpha) ==
    [GLCall(g, <<"glBlendFuncSeparatei", buf, srcRGB, dstRGB, srcAlpha, dstAlpha>>)
       EXCEPT !.state.blend[buf].src_rgb = srcRGB,
              !.state.blend[buf].dst_rgb = dstRGB,
              !.state.blend[buf].src_alpha = srcAlpha,
              !.state.blend[buf].dst_alpha = dstAlpha]

\* glBlendEquationSeparatei(buf, modeRGB, modeAlpha)
glBlendEquationSeparatei(g, buf, modeRGB, modeAlpha) ==
    [GLCall(g, <<"glBlendEquationSeparatei", buf, modeRGB, modeAlpha>>)
       EXCEPT !.state.blend[buf].rgb_mode = modeRGB,
              !.state.blend[buf].alpha_mode = modeAlpha]

\* glEnablei(GL_BLEND, buf) / glDisablei(GL_BLEND, buf)
glBlendi(g, buf, on) ==
    [GLCall(g, <<IF on THEN "glEnablei" ELSE "glDisablei", "GL_BLEND", buf>>)
       EXCEPT !.state.blend[buf].enable = on]

\* glColorMaski(buf, r, g, b, a)
glColorMaski(g, buf, mask) ==
    [GLCall(g, <<"glColorMaski", buf, mask>>) EXCEPT !.state.color_mask[buf] = mask]

\* glEnable / glDisable of GL_SCISSOR_TEST, GL_STENCIL_TEST, GL_CULL_FACE
glSetScissorTest(g, on) ==
    [GLCall(g, <<IF on THEN "glEnable" ELSE "glDisable", "GL_SCISSOR_TEST">>)
       EXCEPT !.state.scissor_test = on]
glSetStencilTest(g, on) ==
    [GLCall(g, <<IF on THEN "glEnable" ELSE "glDisable", "GL_STENCIL_TEST">>)
       EXCEPT !.state.stencil_test = on]
glSetCullFace(g, on) ==
    [GLCall(g, <<IF on THEN "glEnable" ELSE "glDisable", "GL_CULL_FACE">>)
       EXCEPT !.state.cull_enable = on]

\* glDepthMask(flag)
glDepthMask(g, flag) ==
    [GLCall(g, <<"glDepthMask", flag>>) EXCEPT !.state.depth_mask = flag]

\* glDeleteFramebuffers(1, &fbo): a bound framebuffer is unbound.
\* A framebuffer that is never deleted.
LeakFramebuffer(g, fbo) == g

glDeleteFramebuffers(g, fbo) ==
    [GLCall(g, <<"glDeleteFramebuffers", fbo>>)
       EXCEPT !.fbos = @ \ {fbo},
              !.state.draw_framebuffer = IF @ = fbo THEN 0 ELSE @]

\* glStencilFuncSeparate, glStencilMaskSeparate and glStencilOpSeparate of
\* one face, in the order ExecSetRenderPassPipeline issues them.
glStencilSeparate(g, face, s) ==
    LET g1 == GLCall(g, <<"glStencilFuncSeparate", face, s.func, s.ref, s.read_mask>>)
        g2 == GLCall(g1, <<"glStencilMaskSeparate", face, s.write_mask>>)
        g3 == GLCall(g2, <<"glStencilOpSeparate", face, s.op_sfail, s.op_dpfail,
                           s.op_dppass>>)
    IN  IF face = "GL_FRONT"
        THEN [g3 EXCEPT !.state.stencil_front = s]
        ELSE [g3 EXCEPT !.state.stencil_back = s]

(***************************************************************************)
(* The replay routines.  x is the state replay works on: es is             *)
(* glcmdbuf->exec_state, heap the allocator, gl the native context; ret    *)
(* and err are what the routine returned and the error message it set.     *)
(***************************************************************************)
\* What glCheckNamedFramebufferStatus can answer besides
\* GL_FRAMEBUFFER_COMPLETE; GL_FRAMEBUFFER_UNDEFINED is a value the switch
\* of CheckFrameBuffer has no case for.
IncompleteStatuses ==
    {"GL_FRAMEBUFFER_INCOMPLETE_ATTACHMENT", "GL_FRAMEBUFFER_INCOMPLETE_MISSING_ATTACHMENT",
     "GL_FRAMEBUFFER_INCOMPLETE_DRAW_BUFFER", "GL_FRAMEBUFFER_INCOMPLETE_READ_BUFFER",
     "GL_FRAMEBUFFER_UNSUPPORTED", "GL_FRAMEBUFFER_INCOMPLETE_MULTISAMPLE",
     "GL_FRAMEBUFFER_INCOMPLETE_LAYER_TARGETS", "GL_FRAMEBUFFER_UNDEFINED"}

\* The switch of CheckFrameBuffer and the SDL_SetError after it: the message
\* "Framebuffer error: %s" for each status, "" for a complete framebuffer.
FrameBufferError(fb_status) ==
    CASE fb_status = "GL_FRAMEBUFFER_COMPLETE" -> ""
      [] fb_status = "GL_FRAMEBUFFER_INCOMPLETE_ATTACHMENT" ->
            "Framebuffer error: incomplete attachement"
      [] fb_status = "GL_FRAMEBUFFER_INCOMPLETE_MISSING_ATTACHMENT" ->
            "Framebuffer error: missing attachement"
      [] fb_status = "GL_FRAMEBUFFER_INCOMPLETE_DRAW_BUFFER" ->
            "Framebuffer error: incomplete draw buffer"
      [] fb_status = "GL_FRAMEBUFFER_INCOMPLETE_READ_BUFFER" ->
            "Framebuffer error: incomplete read buffer"
      [] fb_status = "GL_FRAMEBUFFER_UNSUPPORTED" ->
            "Framebuffer error: unsuported"
      [] fb_status = "GL_FRAMEBUFFER_INCOMPLETE_MULTISAMPLE" ->
            "Framebuffer error: incomplte multisample"
      [] fb_status = "GL_FRAMEBUFFER_INCOMPLETE_LAYER_TARGETS" ->
            "Framebuffer error: incomplete layer target"
      [] OTHER -> "Framebuffer error: other error"

\* CheckFrameBuffer on a framebuffer whose status is fb_status; err is the
\* last-error message afterwards, given the one before.
CheckFrameBuffer(fb_status, err) ==
    IF FrameBufferError(fb_status) = ""
    THEN [ok |-> TRUE, err |-> err]
    ELSE [ok |-> FALSE, err |-> FrameBufferError(fb_status)]

\* What the native side does in ExecStartRenderPass: "ok", "nofbo" (no
\* framebuffer name), or the status of the incomplete framebuffer.
FboOutcomes == {"ok", "nofbo"} \cup IncompleteStatuses

\* The colour attachment loop of ExecStartRenderPass, slots i .. n-1.
RECURSIVE StartColorSlots(_, _, _, _)
StartColorSlots(g, cmd, fbo, i) ==
    IF i >= cmd.n_color_attachments THEN g
    ELSE IF cmd.color_attachments[i] = 0 THEN StartColorSlots(g, cmd, fbo, i + 1)
    ELSE LET g1 == glColorMaski(g, i, FullMask)
             g2 == GLCall(g1, <<"glNamedFramebufferTexture", fbo,
                                <<"GL_COLOR_ATTACHMENT", i>>, cmd.color_attachments[i]>>)
             g3 == IF cmd.clear_color[i] >= 0
                   THEN GLCall(g2, <<"glClearNamedFramebufferfv", fbo, "GL_COLOR", i,
                                     cmd.clear_color[i]>>)
                   ELSE g2
         IN  StartColorSlots(g3, cmd, fbo, i + 1)

ExecStartRenderPass(x, cmd, outcome) ==
    LET labelled == cmd.pass_label # NULL
        es1 == [x.es EXCEPT !.pop_pass_label = labelled]
        g1 == IF labelled
              THEN PushDebugGroup(x.gl, <<"Start Render Pass: ", cmd.pass_label>>)
              ELSE x.gl
        g2 == GLCall(g1, <<"glCreateFramebuffers">>)
        fb_status == IF outcome \in IncompleteStatuses THEN outcome
                     ELSE "GL_FRAMEBUFFER_COMPLETE"
        fbo == g2.fbo_next
        g3 == [g2 EXCEPT !.fbo_next = @ + 1, !.fbos = @ \cup {fbo}]
        g4 == IF labelled
              THEN GLCall(g3, <<"glObjectLabel", "GL_FRAMEBUFFER", fbo, cmd.pass_label>>)
              ELSE g3
        h1 == IF labelled THEN FreeLabel(x.heap, cmd.pass_label) ELSE x.heap
        g5 == [GLCall(g4, <<"glBindFramebuffer", "GL_DRAW_FRAMEBUFFER", fbo>>)
                 EXCEPT !.state.draw_framebuffer = fbo]
        g6 == glSetScissorTest(g5, FALSE)
        g7 == GLCall(g6, <<"glNamedFramebufferDrawBuffers", fbo, cmd.draw_buffers>>)
        g8 == StartColorSlots(g7, cmd, fbo, 0)
        g9 == IF cmd.depth_attachment = 0 THEN g8
              ELSE LET d1 == GLCall(g8, <<"glNamedFramebufferTexture", fbo,
                                          <<"GL_DEPTH_ATTACHMENT">>, cmd.depth_attachment>>)
                   IN  IF cmd.clear_depth_value >= 0
                       THEN GLCall(glDepthMask(d1, TRUE),
                                   <<"glClearNamedFramebufferfv", fbo, "GL_DEPTH", 0,
                                     cmd.clear_depth_value>>)
                       ELSE d1
        \* cmd->clear_stencil >= 0.f holds for SDL_FALSE and for SDL_TRUE
        g10 == IF cmd.stencil_attachment = 0 THEN glSetStencilTest(g9, FALSE)
               ELSE LET s1 == GLCall(g9, <<"glNamedFramebufferTexture", fbo,
                                           <<"GL_STENCIL_ATTACHMENT">>, cmd.stencil_attachment>>)
                        s2 == GLCall(s1, <<"glClearNamedFramebufferiv", fbo, "GL_STENCIL", 0,
                                           cmd.clear_stencil_value>>)
                    IN  glSetStencilTest(s2, TRUE)
        g11 == IF cmd.n_invalid # 0
               THEN GLCall(g10, <<"glInvalidateNamedFramebufferData", fbo,
                                  cmd.n_invalid, cmd.invalidate_buffers>>)
               ELSE g10
        g12 == glSetScissorTest(g11, TRUE)
        g13 == GLCall(g12, <<"glCheckNamedFramebufferStatus", fbo, fb_status>>)
        check == CheckFrameBuffer(fb_status, x.err)
    IN  IF outcome = "nofbo"
        THEN [es |-> es1, heap |-> FreeLabel(x.heap, cmd.pass_label),
              gl |-> [g2 EXCEPT !.fbo_failed = TRUE],
              ret |-> -1, err |-> "could not create framebuffer: OpenGL error"]
        ELSE IF ~check.ok
        THEN [es |-> es1, heap |-> h1,
              gl |-> [glDeleteFramebuffers(g13, fbo) EXCEPT !.fbo_failed = TRUE],
              ret |-> -1, err |-> check.err]
        ELSE [es |-> [es1 EXCEPT !.fbo_glid = fbo,
                                 !.n_color_attachment = cmd.n_color_attachments],
              heap |-> h1, gl |-> g13, ret |-> 0, err |-> x.err]

\* The colour slot loop of ExecSetRenderPassPipeline, slots i .. n-1.
RECURSIVE PipelineColorSlots(_, _, _, _)
PipelineColorSlots(g, cmd, i, n) ==
    IF i >= n THEN g
    ELSE LET g1 == IF cmd.blend[i].enable
                   THEN glBlendFuncSeparatei(
                            glBlendEquationSeparatei(glBlendi(g, i, TRUE), i,
                                                     cmd.blend[i].rgb_mode,
                                                     cmd.blend[i].alpha_mode),
                            i,
                            cmd.blend[i].func_rgb_src,
                            cmd.blend[i].func_alpha_src,
                            cmd.blend[i].func_rgb_dst,
                            cmd.blend[i].func_alpha_dst)
                   ELSE glBlendi(g, i, FALSE)
             g2 == glColorMaski(g1, i, cmd.writemask[i])
         IN  PipelineColorSlots(g2, cmd, i + 1, n)

ExecSetRenderPassPipeline(x, cmd) ==
    LET labelled == cmd.pipeline_label # NULL
        g0 == IF x.es.pop_pipeline_label THEN PopDebugGroup(x.gl) ELSE x.gl
        es1 == [x.es EXCEPT !.pop_pipeline_label = labelled]
        g1 == IF labelled
              THEN PushDebugGroup(g0, <<"Pipeline: ", cmd.pipeline_label>>)
              ELSE g0
        h1 == IF labelled THEN FreeLabel(x.heap, cmd.pipeline_label) ELSE x.heap
        g2 == [GLCall(GLCall(g1, <<"glBindVertexArray", cmd.vao>>),
                      <<"glUseProgram", cmd.program>>)
                 EXCEPT !.state.vao = cmd.vao, !.state.program = cmd.program]
        g3 == PipelineColorSlots(g2, cmd, 0, x.es.n_color_attachment)
        g4 == [GLCall(glDepthMask(g3, cmd.depth_mask), <<"glDepthFunc", cmd.depth_func>>)
                 EXCEPT !.state.depth_func = cmd.depth_func]
        g5 == [GLCall(g4, <<"glPolygonOffsetClamp", cmd.depth_bias_scale, cmd.depth_bias,
                            cmd.depth_bias_clamp>>)
                 EXCEPT !.state.polygon_offset =
                           [factor |-> cmd.depth_bias_scale, units |-> cmd.depth_bias,
                            clamp |-> cmd.depth_bias_clamp]]
        g6 == glStencilSeparate(g5, "GL_FRONT", cmd.stencil_front)
        g7 == glStencilSeparate(g6, "GL_BACK", cmd.stencil_back)
        g8 == [GLCall(g7, <<"glPolygonMode", "GL_FRONT_AND_BACK", cmd.polygon_mode>>)
                 EXCEPT !.state.polygon_mode = cmd.polygon_mode]
        g9 == IF cmd.enable_cull_face
              THEN [GLCall(GLCall(glSetCullFace(g8, TRUE),
                                  <<"glFrontFace", cmd.front_face>>),
                           <<"glCullFace", cmd.cull_face>>)
                      EXCEPT !.state.front_face = cmd.front_face,
                             !.state.cull_face = cmd.cull_face]
              ELSE glSetCullFace(g8, FALSE)
    IN  [es |-> es1, heap |-> h1, gl |-> g9, ret |-> 0, err |-> x.err]

\* glViewport takes GLint and GLsizei: the GLfloat fields are converted.
ExecSetViewport(x, cmd) ==
    LET rect == [x |-> ToGLint(cmd.x), y |-> ToGLint(cmd.y),
                 w |-> ToGLint(cmd.w), h |-> ToGLint(cmd.h)]
    IN  [x EXCEPT !.gl = [GLCall(x.gl, <<"glViewport", rect>>)
                            EXCEPT !.state.viewport = rect]]

ExecSetScissor(x, cmd) ==
    LET rect == [x |-> cmd.x, y |-> cmd.y, w |-> cmd.w, h |-> cmd.h]
    IN  [x EXCEPT !.gl = [GLCall(x.gl, <<"glScissor", rect>>)
                            EXCEPT !.state.scissor = rect]]

ExecSetBuffer(x, cmd) ==
    [x EXCEPT !.gl = GLCall(x.gl, <<"glBindBufferRange", "GL_SHADER_STORAGE_BUFFER",
                                    cmd.index, cmd.buffer, cmd.offset, cmd.size>>)]

ExecSetMesh(x, cmd) ==
    [x EXCEPT !.gl = GLCall(x.gl, <<"glBindVertexBuffer", cmd.index, cmd.buffer,
                                    cmd.offset, cmd.stride>>)]

ExecDraw(x, cmd) ==
    [x EXCEPT !.gl = GLCall(x.gl, <<"glDrawArrays", cmd.mode, cmd.first, cmd.count>>)]

ExecDrawIndexed(x, cmd) ==
    [x EXCEPT !.gl = GLCall(GLCall(x.gl, <<"glBindBuffer", "GL_ELEMENT_ARRAY_BUFFER",
                                           cmd.index_buffer>>),
                            <<"glDrawElements", cmd.mode, cmd.count, cmd.index_type,
                              cmd.indices>>)]

\* An EndRenderPass replay that leaves the pipeline's debug group open.
EndKeepsPipelineGroup(x, cmd) ==
    LET g2 == IF x.es.fbo_glid # 0 THEN glDeleteFramebuffers(x.gl, x.es.fbo_glid) ELSE x.gl
        g3 == IF x.es.pop_pass_label THEN PopDebugGroup(g2) ELSE g2
    IN  [x EXCEPT !.gl = g3,
                  !.es = [@ EXCEPT !.pop_pipeline_label = FALSE, !.pop_pass_label = FALSE,
                                   !.fbo_glid = 0, !.n_color_attachment = 0]]

ExecEndRenderPass(x, cmd) ==
    LET g1 == IF x.es.pop_pipeline_label THEN PopDebugGroup(x.gl) ELSE x.gl
        g2 == IF x.es.fbo_glid # 0 THEN glDeleteFramebuffers(g1, x.es.fbo_glid) ELSE g1
        g3 == IF x.es.pop_pass_label THEN PopDebugGroup(g2) ELSE g2
    IN  [x EXCEPT !.gl = g3,
                  !.es = [@ EXCEPT !.pop_pipeline_label = FALSE, !.pop_pass_label = FALSE,
                                   !.fbo_glid = 0, !.n_color_attachment = 0]]

\* The label stays allocated: nothing here hands it to SDL_free.
ExecStartBlitPass(x, cmd) ==
    [x EXCEPT !.es.pop_pass_label = cmd.pass_label # NULL,
              !.gl = IF cmd.pass_label # NULL
                     THEN PushDebugGroup(x.gl, <<"Start blit Pass: ", cmd.pass_label>>)
                     ELSE x.gl]

ExecCopyBuffer(x, cmd) ==
    [x EXCEPT !.gl = GLCall(x.gl, <<"glCopyNamedBufferSubData", cmd.src, cmd.dst,
                                    cmd.src_offset, cmd.dst_offset, cmd.size>>)]

TextureTypes ==
    {"SDL_GPUTEXTYPE_1D", "SDL_GPUTEXTYPE_1D_ARRAY", "SDL_GPUTEXTYPE_CUBE",
     "SDL_GPUTEXTYPE_2D", "SDL_GPUTEXTYPE_2D_ARRAY", "SDL_GPUTEXTYPE_CUBE_ARRAY",
     "SDL_GPUTEXTYPE_3D"}

\* GetTextureDimension; 0 for a value that is no texture type.
GetTextureDimension(data_type) ==
    CASE data_type = "SDL_GPUTEXTYPE_1D" -> 1
      [] data_type \in {"SDL_GPUTEXTYPE_1D_ARRAY", "SDL_GPUTEXTYPE_CUBE",
                        "SDL_GPUTEXTYPE_2D"} -> 2
      [] data_type \in {"SDL_GPUTEXTYPE_2D_ARRAY", "SDL_GPUTEXTYPE_CUBE_ARRAY",
                        "SDL_GPUTEXTYPE_3D"} -> 3
      [] OTHER -> 0

\* The tags in the order of the enumeration: the value of a tag is its
\* place less one.
GLCMD_TYPE ==
    <<"CMD_NONE", "CMD_START_RENDER_PASS", "CMD_SET_PIPELINE", "CMD_SET_VIEWPORT",
      "CMD_SET_SCISSOR", "CMD_SET_BLEND_CONSTANT", "CMD_SET_BUFFER",
      "CMD_SET_SAMPLER", "CMD_SET_TEXTURE", "CMD_SET_MESH", "CMD_DRAW",
      "CMD_DRAW_INDEXED", "CMD_DRAW_INSTANCED", "CMD_DRAW_INSTANCED_INDEXED",
      "CMD_END_RENDER_PASS", "CMD_START_BLIT_PASS", "CMD_FILL_BUFFER",
      "CMD_GENERATE_MIPMAP", "CMD_COPY_TEXTURE", "CMD_COPY_BUFFER",
      "CMD_COPY_BUFFER_TO_TEXTURE_1D", "CMD_COPY_BUFFER_TO_TEXTURE_2D",
      "CMD_COPY_BUFFER_TO_TEXTURE_3D", "CMD_COPY_TEXTURE_TO_BUFFER_1D",
      "CMD_COPY_TEXTURE_TO_BUFFER_2D", "CMD_COPY_TEXTURE_TO_BUFFER_3D",
      "CMD_END_BLIT_PASS", "CMD_COUNT">>

\* type + n
TagPlus(type, n) ==
    GLCMD_TYPE[(CHOOSE k \in DOMAIN GLCMD_TYPE : GLCMD_TYPE[k] = type) + n]

ToGLDataFormat(data_format) ==
    CASE data_format = "SDL_GPUPIXELFMT_B5G6R5" -> "GL_RGB"
      [] data_format \in {"SDL_GPUPIXELFMT_BGR5A1", "SDL_GPUPIXELFMT_RGBA8",
                          "SDL_GPUPIXELFMT_RGBA8_sRGB"} -> "GL_RGBA"
      [] data_format \in {"SDL_GPUPIXELFMT_BGRA8", "SDL_GPUPIXELFMT_BGRA8_sRGB"} -> "GL_BGRA"
      [] data_format = "SDL_GPUPIXELFMT_Depth24_Stencil8" -> "GL_DEPTH_STENCIL"
      [] OTHER -> "0"

ToGLDataType(data_format) ==
    CASE data_format = "SDL_GPUPIXELFMT_B5G6R5" -> "GL_UNSIGNED_SHORT_5_6_5"
      [] data_format = "SDL_GPUPIXELFMT_BGR5A1" -> "GL_UNSIGNED_SHORT_5_5_5_1"
      [] data_format \in {"SDL_GPUPIXELFMT_RGBA8", "SDL_GPUPIXELFMT_RGBA8_sRGB",
                          "SDL_GPUPIXELFMT_BGRA8", "SDL_GPUPIXELFMT_BGRA8_sRGB"}
           -> "GL_UNSIGNED_INT_8_8_8_8"
      [] data_format = "SDL_GPUPIXELFMT_Depth24_Stencil8" -> "GL_UNSIGNED_INT_24_8"
      [] OTHER -> "0"

\* OPENGL_GpuCopyFromBufferToTexture of a region c of buffer srcbuf to
\* texture dsttex.
CopyFromBufferToTexture(B, Buffers, Textures, Copies, R) ==
    /\ status.phase = "recording"
    /\ pass.kind = "blit"
    /\ Len(arena.cmd) < B
    /\ \E srcbuf \in Buffers, dsttex \in Textures, c \in Copies, r \in R :
         LET type == TagPlus("CMD_COPY_BUFFER_TO_TEXTURE_1D",
                             GetTextureDimension(dsttex.desc.texture_type) - 1)
             cmd == [type |-> type, buffer |-> srcbuf, texture |-> dsttex.driverdata,
                     level |-> c.dstlevel,
                     dst_x |-> c.dstx, dst_y |-> c.dsty, dst_z |-> c.dstz,
                     dst_w |-> c.srcw, dst_h |-> c.srch, dst_d |-> c.srcdepth,
                     data_format |-> ToGLDataFormat(dsttex.desc.pixel_format),
                     data_type |-> ToGLDataType(dsttex.desc.pixel_format),
                     src_offset |-> c.srcoffset, src_pitch |-> c.srcpitch,
                     src_imgpitch |-> c.srcimgpitch]
             res == PushCommand(arena, heap, driverdata, pass, cmd, SizeOfCmd(type), r)
         IN  /\ srcbuf # 0
             /\ dsttex.driverdata # 0
             /\ arena' = res.arena
             /\ heap' = res.heap
             /\ driverdata' = res.driverdata
             /\ pass' = res.pass
             /\ status' = Returned("CopyFromBufferToTexture", res.ret, res.err, "recording")
    /\ UNCHANGED <<gl, dev, win, rt, rsrc>>

ExecCopyBufferToTexture1D(x, cmd) ==
    LET g1 == GLCall(x.gl, <<"glBindBuffer", "GL_PIXEL_UNPACK_BUFFER", cmd.buffer>>)
        g2 == GLCall(g1, <<"glTextureSubImage1D", cmd.texture, cmd.level, cmd.dst_x,
                           cmd.dst_w, cmd.data_format, cmd.data_type, cmd.src_offset>>)
    IN  [x EXCEPT !.gl = GLCall(g2, <<"glBindBuffer", "GL_PIXEL_UNPACK_BUFFER", 0>>)]

\* Bytes of one pixel in a pixel unpack buffer: these types pack a pixel in
\* one element.
ElementSize(data_type) ==
    IF data_type \in {"GL_UNSIGNED_SHORT_5_6_5", "GL_UNSIGNED_SHORT_5_5_5_1"} THEN 2 ELSE 4

\* The context keeps the default unpack state: GL_UNPACK_ALIGNMENT 4 and
\* GL_UNPACK_ROW_LENGTH 0, so the rows of one call lie a row of width
\* pixels, rounded up to a multiple of 4 bytes, apart.
UnpackAlignment == 4
UnpackRowStride(width, data_type) ==
    ((width * ElementSize(data_type) + UnpackAlignment - 1) \div UnpackAlignment)
       * UnpackAlignment

\* glTextureSubImage2D with a pixel unpack buffer bound: row yoffset + j of
\* the texture is written from the bytes at data + j * row stride.
glTextureSubImage2D(g, texture, level, xoffset, yoffset, width, height, format, type, data) ==
    [GLCall(g, <<"glTextureSubImage2D", texture, level, xoffset, yoffset, width, height,
                 format, type, data>>)
       EXCEPT !.uploads = @ \o [j \in 1 .. height |->
                                  [texture |-> texture, row |-> yoffset + j - 1,
                                   from |-> data + (j - 1) * UnpackRowStride(width, type)]]]

\* The rows i, i + 1, ... of a region whose pitch is no multiple of 4.
RECURSIVE SubImageRows(_, _, _)
SubImageRows(g, cmd, i) ==
    IF i >= cmd.dst_h THEN g
    ELSE SubImageRows(glTextureSubImage2D(g, cmd.texture, cmd.level,
                                          cmd.dst_x, cmd.dst_y + i, cmd.dst_w, 1,
                                          cmd.data_format, cmd.data_type,
                                          cmd.src_offset + i * cmd.src_pitch),
                      cmd, i + 1)

ExecCopyBufferToTexture2D(x, cmd) ==
    LET g1 == GLCall(x.gl, <<"glBindBuffer", "GL_PIXEL_UNPACK_BUFFER", cmd.buffer>>)
        g2 == IF cmd.src_pitch % 4 = 0
              THEN glTextureSubImage2D(g1, cmd.texture, cmd.level,
                                       cmd.dst_x, cmd.dst_y, cmd.dst_w, cmd.dst_h,
                                       cmd.data_format, cmd.data_type, cmd.src_offset)
              ELSE SubImageRows(g1, cmd, 0)
    IN  [x EXCEPT !.gl = GLCall(g2, <<"glBindBuffer", "GL_PIXEL_UNPACK_BUFFER", 0>>)]

\* The routine has no statement.
ExecCopyBufferToTexture3D(x, cmd) == x

\* ExecDrawInstanced, ExecDrawInstancedIndexed and ExecCopyTextureToBuffer1D,
\* 2D and 3D have no statement.
ExecDrawInstanced(x, cmd) == x

ExecDrawInstancedIndexed(x, cmd) == x

ExecCopyTextureToBuffer(x, cmd) == x

ExecEndBlitPass(x, cmd) ==
    IF x.es.pop_pass_label
    THEN [x EXCEPT !.gl = PopDebugGroup(x.gl), !.es.pop_pass_label = FALSE]
    ELSE x

(***************************************************************************)
(* OPENGL_GpuSubmitCommandBuffer.                                          *)
(***************************************************************************)
\* The switch of the replay loop: the routine of a tag.
Exec(x, rec, outcome) ==
    CASE rec.type = "CMD_START_RENDER_PASS" -> ExecStartRenderPass(x, rec, outcome)
      [] rec.type = "CMD_SET_PIPELINE"      -> ExecSetRenderPassPipeline(x, rec)
      [] rec.type = "CMD_SET_VIEWPORT"      -> ExecSetViewport(x, rec)
      [] rec.type = "CMD_SET_SCISSOR"       -> ExecSetScissor(x, rec)
      [] rec.type = "CMD_SET_BUFFER"        -> ExecSetBuffer(x, rec)
      [] rec.type = "CMD_SET_MESH"          -> ExecSetMesh(x, rec)
      [] rec.type = "CMD_DRAW"              -> ExecDraw(x, rec)
      [] rec.type = "CMD_DRAW_INDEXED"      -> ExecDrawIndexed(x, rec)
      [] rec.type = "CMD_DRAW_INSTANCED"    -> ExecDrawInstanced(x, rec)
      [] rec.type = "CMD_DRAW_INSTANCED_INDEXED" -> ExecDrawInstancedIndexed(x, rec)
      [] rec.type = "CMD_END_RENDER_PASS"   -> ExecEndRenderPass(x, rec)
      [] rec.type = "CMD_START_BLIT_PASS"   -> ExecStartBlitPass(x, rec)
      [] rec.type = "CMD_COPY_BUFFER"       -> ExecCopyBuffer(x, rec)
      [] rec.type = "CMD_COPY_BUFFER_TO_TEXTURE_1D" -> ExecCopyBufferToTexture1D(x, rec)
      [] rec.type = "CMD_COPY_BUFFER_TO_TEXTURE_2D" -> ExecCopyBufferToTexture2D(x, rec)
      [] rec.type = "CMD_COPY_BUFFER_TO_TEXTURE_3D" -> ExecCopyBufferToTexture3D(x, rec)
      [] rec.type \in {"CMD_COPY_TEXTURE_TO_BUFFER_1D", "CMD_COPY_TEXTURE_TO_BUFFER_2D",
                       "CMD_COPY_TEXTURE_TO_BUFFER_3D"} -> ExecCopyTextureToBuffer(x, rec)
      [] rec.type = "CMD_END_BLIT_PASS"     -> ExecEndBlitPass(x, rec)
      [] OTHER                              -> x

\* The replay loop from offset i of the block whose contents are a.  fail
\* names the StartRenderPass record (by offset) at which the native side
\* fails, and how; budget is the number of records the loop still gets to
\* read before the block it reads stops holding them.
RECURSIVE Replay(_, _, _, _, _)
\* What the replay of one record is remembered by: the record and its offset,
\* the native state it left, the debug groups open before it, the native
\* calls it made, the texture rows it wrote and the replay state it left.
Step(i, rec, x, y) ==
    [off |-> i, rec |-> rec, state |-> y.gl.state,
     groups |-> x.gl.groups,
     calls |-> SubSeq(y.gl.calls, Len(x.gl.calls) + 1, Len(y.gl.calls)),
     uploads |-> SubSeq(y.gl.uploads, Len(x.gl.uploads) + 1, Len(y.gl.uploads)),
     es |-> y.es]

Replay(x, a, i, fail, budget) ==
    LET at == {k \in 1 .. Len(a.cmd) : a.cmd[k].off = i}
    IN  IF budget = 0 \/ at = {} THEN x
        ELSE LET rec == a.cmd[CHOOSE k \in at : TRUE].rec
                 outcome == IF fail.off = i THEN fail.how ELSE "ok"
             IN  IF rec.type = "CMD_NONE" THEN x
                 ELSE CHOOSE out \in
                        {IF rec.type = "CMD_START_RENDER_PASS" /\ y.ret # 0
                         THEN [y EXCEPT !.gl.log = Append(@, Step(i, rec, x, y))]
                         ELSE Replay([y EXCEPT !.gl.log = Append(@, Step(i, rec, x, y))],
                                     a, i + SizeOfCmd(rec.type), fail, budget - 1) :
                            y \in {Exec([x EXCEPT !.ret = 0], rec, outcome)}} : TRUE

\* The native failures replay can meet: none, or one at a StartRenderPass.
FboFailures(a, Hows) ==
    {[off |-> -1, how |-> "ok"]}
    \cup {[off |-> a.cmd[k].off, how |-> how] :
            k \in {j \in 1 .. Len(a.cmd) : a.cmd[j].rec.type = "CMD_START_RENDER_PASS"},
            how \in Hows}

SubmitCommandBuffer(R, Hows) ==
    /\ status.phase = "recording"
    /\ pass.kind = "none"
    /\ \E r \in R, fail \in FboFailures(arena, Hows) :
         LET glcmdbuf == driverdata
             res == PushCommand(arena, heap, driverdata, pass, [type |-> "CMD_NONE"],
                                SizeOfCmd("CMD_NONE"), r)
             stale == glcmdbuf # res.driverdata
             x0 == [es |-> res.arena.exec_state, heap |-> res.heap,
                    gl |-> [gl EXCEPT !.stale_read = @ \/ stale],
                    ret |-> 0, err |-> ""]
         IN  IF res.ret # 0
             THEN /\ status' = Returned("SubmitCommandBuffer", -1, res.err, "recording")
                  /\ UNCHANGED <<arena, heap, driverdata, pass, gl>>
             ELSE \E seen \in IF stale THEN 0 .. Len(arena.cmd)
                                        ELSE {Len(res.arena.cmd) + 1} :
                    \E x1 \in {Replay(x0, res.arena, 0, fail, seen)} :
                       /\ arena' = [res.arena EXCEPT !.exec_state = x1.es]
                       /\ heap' = FreeBlock(x1.heap, glcmdbuf)
                       /\ driverdata' = res.driverdata
                       /\ pass' = res.pass
                       /\ gl' = x1.gl
                       /\ status' = Returned("SubmitCommandBuffer", 0, x1.err, "submitted")
    /\ UNCHANGED <<dev, win, rt, rsrc>>

(***************************************************************************)
(* OPENGL_GpuAbandonCommandBuffer.                                         *)
(***************************************************************************)
AbandonCommandBuffer ==
    /\ status.phase = "recording"
    /\ heap' = FreeBlock(heap, driverdata)
    /\ status' = Returned("AbandonCommandBuffer", 0, "", "abandoned")
    /\ UNCHANGED <<arena, driverdata, pass, gl, dev, win, rt, rsrc>>

(***************************************************************************)
(* The backbuffer: RecreateBackBufferTexture, OPENGL_GpuClaimWindow,       *)
(* WindowEventWatch and OPENGL_GpuGetBackbuffer.  The observer runs on the *)
(* thread that delivers events; GetBackbuffer runs on the render thread    *)
(* and is cut at its atomic operations and at the read of the window size. *)
(***************************************************************************)
\* Events waiting for the observer at one time.
MaxEvents == 2

WindowSizes == {[w |-> 2, h |-> 2], [w |-> 3, h |-> 2], [w |-> 3, h |-> 4]}

WindowFormats ==
    {"SDL_PIXELFORMAT_ARGB8888", "SDL_PIXELFORMAT_UNKNOWN", "SDL_PIXELFORMAT_ARGB2101010"}

ResizeEvents == {"SDL_EVENT_WINDOW_RESIZED", "SDL_EVENT_WINDOW_PIXEL_SIZE_CHANGED"}

\* The switch on the window pixel format.
InternalFormat(window_pixel_format) ==
    CASE window_pixel_format = "SDL_PIXELFORMAT_UNKNOWN"     -> "0"
      [] window_pixel_format = "SDL_PIXELFORMAT_ARGB2101010" -> "GL_RGB10_A2"
      [] OTHER                                               -> "GL_RGBA8"

PixelFormatFromGL(interal_pixel_format) ==
    CASE interal_pixel_format = "GL_RGB5_A1" -> "SDL_GPUPIXELFMT_BGR5A1"
      [] interal_pixel_format = "GL_RGB565"  -> "SDL_GPUPIXELFMT_B5G6R5"
      [] interal_pixel_format = "GL_RGBA8"   -> "SDL_GPUPIXELFMT_RGBA8"
      [] OTHER                               -> "SDL_GPUPIXELFMT_INVALID"

\* glCreateTextures: a name that no existing texture has.
NewTextureName(d) == CHOOSE n \in 1 .. (Cardinality(d.textures) + 1) : n \notin d.textures

\* What the native side does in RecreateBackBufferTexture: "ok",
\* "notexture" (glCreateTextures gives no name), or the status of the
\* backbuffer framebuffer with the new texture attached.
TextureOutcomes == {"ok", "notexture", "GL_FRAMEBUFFER_UNSUPPORTED"}

\* A failure path that leaves the new texture in the framebuffer.
LeaveNewTexture(texture_backbuffer, new_texture) == new_texture

\* "put back old texture": the texture attached after a failed check.
PutBackOldTexture(texture_backbuffer, new_texture) == texture_backbuffer

\* RecreateBackBufferTexture after it has read the window: w, h and
\* window_pixel_format are what it read, outcome what the native side does.
\* attached is the texture at GL_COLOR_ATTACHMENT0 of fbo_backbuffer and
\* textures the texture objects that exist when it returns: on the failure
\* paths new_texture was never created or is deleted again.
RecreateBackBufferTexture(d, w, h, window_pixel_format, outcome) ==
    LET gl_internal_format == InternalFormat(window_pixel_format)
        sdl_format == PixelFormatFromGL(gl_internal_format)
        new_texture == NewTextureName(d)
        fb_status == IF outcome \in IncompleteStatuses THEN outcome
                     ELSE "GL_FRAMEBUFFER_COMPLETE"
        check == CheckFrameBuffer(fb_status, "")
    IN  IF gl_internal_format = "0" \/ sdl_format = "SDL_GPUPIXELFMT_INVALID"
        THEN [ok |-> FALSE, dev |-> d, err |-> "invalid window pixel format"]
        ELSE IF w = d.w_backbuffer /\ h = d.h_backbuffer
                /\ sdl_format = d.texture_backbuffer_format
        THEN [ok |-> TRUE, dev |-> d, err |-> ""]
        ELSE IF outcome = "notexture"
        THEN [ok |-> FALSE, dev |-> d,
              err |-> "Could not create back buffer texture: OpenGL error"]
        ELSE IF ~check.ok
        THEN [ok |-> FALSE,
              dev |-> [d EXCEPT !.attached =
                                   PutBackOldTexture(d.texture_backbuffer, new_texture)],
              err |-> check.err]
        ELSE [ok |-> TRUE,
              dev |-> [d EXCEPT !.textures = (@ \ {d.texture_backbuffer}) \cup {new_texture},
                                !.attached = new_texture,
                                !.texture_backbuffer = new_texture,
                                !.texture_backbuffer_format = sdl_format,
                                !.w_backbuffer = w,
                                !.h_backbuffer = h],
              err |-> ""]

\* A recreation that never changes the flags.
KeepFlags(old_flags, flags, ok) == old_flags

\* SDL_RecreateWindow(window, flags): the flags the window has afterwards.
RecreateWindow(old_flags, flags, ok) == IF ok THEN flags ELSE old_flags

\* What the platform does in one ClaimWindow: whether the
\* SDL_RecreateWindow that adds SDL_WINDOW_OPENGL, SDL_GL_MakeCurrent, and
\* the SDL_RecreateWindow that puts the flags back succeed.
PlatformOutcomes == [recreate : BOOLEAN, current : BOOLEAN, restore : BOOLEAN]

\* OPENGL_GpuClaimWindow.  cause is the platform call that made it return
\* -1 or the message of the failed RecreateBackBufferTexture;
\* restored tells whether it called SDL_RecreateWindow with the flags the
\* window had, and what came of that.
ClaimWindow(Formats, Outcomes, Platform) ==
    /\ rt.pc = "idle"
    /\ dev.driverdata # NULL
    /\ \E pf \in Platform, fmt \in Formats, outcome \in Outcomes :
         LET window_flags == win.flags
             changed_window == "SDL_WINDOW_OPENGL" \notin window_flags
             gl_flags == IF changed_window
                         THEN (window_flags \ {"SDL_WINDOW_VULKAN", "SDL_WINDOW_METAL"})
                                 \cup {"SDL_WINDOW_OPENGL"}
                         ELSE window_flags
             put_back == IF changed_window
                         THEN RecreateWindow(gl_flags, window_flags, pf.restore)
                         ELSE gl_flags
             restored == IF ~changed_window THEN "none"
                         ELSE IF pf.restore THEN "ok" ELSE "failed"
             d1 == [dev EXCEPT !.window = "window", !.dummy_window = FALSE]
             res == RecreateBackBufferTexture(d1, win.w, win.h, fmt, outcome)
         IN  IF changed_window /\ ~pf.recreate
             THEN /\ rt' = [rt EXCEPT !.op = "ClaimWindow", !.ret = -1,
                                      !.cause = "SDL_RecreateWindow", !.restored = "none"]
                  /\ UNCHANGED <<dev, win>>
             ELSE IF ~pf.current
             THEN /\ rt' = [rt EXCEPT !.op = "ClaimWindow", !.ret = -1,
                                      !.cause = "SDL_GL_MakeCurrent", !.restored = restored]
                  /\ win' = [win EXCEPT !.flags = put_back]
                  /\ UNCHANGED dev
             ELSE /\ dev' = res.dev
                  /\ win' = [win EXCEPT !.flags = IF res.ok THEN gl_flags ELSE put_back,
                                        !.hidden = IF dev.dummy_window THEN @ - 1 ELSE @,
                                        !.current = "window"]
                  /\ rt' = [rt EXCEPT !.op = "ClaimWindow",
                                      !.ret = IF res.ok THEN 0 ELSE -1,
                                      !.cause = res.err,
                                      !.restored = IF res.ok THEN "none" ELSE restored]
    /\ UNCHANGED <<cmdvars, rsrc>>

\* The platform resizes the window: the new size is in place before the
\* event reaches the observer.  events are the events on their way to the
\* observer SDL_AddEventWatch registered; without one none is on its way.
WindowResize(Sizes) ==
    /\ Len(win.events) < MaxEvents
    /\ \E size \in Sizes, e \in ResizeEvents :
         /\ size # [w |-> win.w, h |-> win.h]
         /\ win' = [win EXCEPT !.w = size.w, !.h = size.h,
                               !.events = IF win.watch THEN Append(@, e) ELSE @,
                               !.resized = TRUE]
    /\ UNCHANGED <<dev, rt>>
    /\ UNCHANGED <<cmdvars, rsrc>>

\* Any other event the observer is shown.
OtherEvent ==
    /\ Len(win.events) < MaxEvents
    /\ win.watch
    /\ win' = [win EXCEPT !.events = Append(@, "SDL_EVENT_OTHER")]
    /\ UNCHANGED <<dev, rt>>
    /\ UNCHANGED <<cmdvars, rsrc>>

\* SDL_AtomicSet(&gl_data->window_size_changed, 1)
SignalResize(flag) == 1

\* SDL_free(gl_data) leaves the observer registered with gl_data as its
\* user_data: dangling tells that some registered observer has the address
\* of a released block.
DanglingWatch(dangling, watched) == dangling \/ watched

\* WindowEventWatch on the oldest waiting event, once for every
\* registration.  signalled remembers that the flag was set and no
\* recreation attempt has started since; freed_write that SDL_AtomicSet
\* wrote through the user_data of a released block.  What that write
\* changes is undefined; the device data that exists is written by the
\* observer registered for it.
WindowEventWatch ==
    /\ win.events # <<>>
    /\ win.watch
    /\ LET e == Head(win.events)
       IN  IF e \in ResizeEvents
           THEN /\ dev' = IF dev.driverdata # NULL
                          THEN [dev EXCEPT !.window_size_changed = SignalResize(@)]
                          ELSE dev
                /\ win' = [win EXCEPT !.events = Tail(@), !.signalled = TRUE,
                                      !.freed_write = @ \/ win.dangling]
           ELSE /\ win' = [win EXCEPT !.events = Tail(@)]
                /\ UNCHANGED dev
    /\ UNCHANGED rt
    /\ UNCHANGED <<cmdvars, rsrc>>

\* SDL_AtomicCAS(&a, oldval, newval)
AtomicCAS(a, oldval, newval) ==
    [swapped |-> a = oldval, value |-> IF a = oldval THEN newval ELSE a]

\* What GetBackbuffer hands back in *texture when it returns 0.
BackbufferTexture(d) ==
    [pixel_format |-> d.texture_backbuffer_format, height |-> d.h_backbuffer,
     width |-> d.w_backbuffer, driverdata |-> d.texture_backbuffer]

\* The condition of SDL_assert(window != gl_data->window) in GetBackbuffer
\* and Present.
WindowAssertion(window, d) == window # d.window

\* The condition of SDL_assert(tex_glid == gl_data->texture_backbuffer).
BackbufferAssertion(tex_glid, d) == tex_glid = d.texture_backbuffer

\* The assertions among those named whose condition is false.
Violated(conditions) == {a \in DOMAIN conditions : ~conditions[a]}

\* GetBackbuffer of the window the device has claimed, up to and including
\* the compare-and-swap; without a pending signal the call returns at once.
\* asserted holds the assertions of the call whose condition was false; the
\* call goes on as it does where SDL_assert compiles to nothing.
GetBackbufferBegin ==
    /\ rt.pc = "idle"
    /\ dev.window = "window"
    /\ LET cas == AtomicCAS(dev.window_size_changed, 1, 0)
           asserted == Violated([window |-> WindowAssertion("window", dev)])
       IN  /\ dev' = [dev EXCEPT !.window_size_changed = cas.value]
           /\ rt' = IF cas.swapped
                    THEN [rt EXCEPT !.pc = "recreate", !.op = "GetBackbuffer",
                                    !.swapped = TRUE, !.attempts = 0,
                                    !.cause = "", !.restored = "none",
                                    !.asserted = asserted]
                    ELSE [rt EXCEPT !.pc = "idle", !.op = "GetBackbuffer",
                                    !.swapped = FALSE, !.attempts = 0, !.ret = 0,
                                    !.cause = "", !.restored = "none",
                                    !.texture = BackbufferTexture(dev),
                                    !.asserted = asserted]
    /\ UNCHANGED win
    /\ UNCHANGED <<cmdvars, rsrc>>

\* RecreateBackBufferTexture reads the window: the attempt starts.
RecreateRead(Formats) ==
    /\ rt.pc = "recreate"
    /\ \E fmt \in Formats :
         rt' = [rt EXCEPT !.pc = "create", !.w = win.w, !.h = win.h, !.format = fmt,
                          !.attempts = @ + 1]
    /\ win' = [win EXCEPT !.signalled = FALSE, !.resized = FALSE]
    /\ UNCHANGED dev
    /\ UNCHANGED <<cmdvars, rsrc>>

\* The rest of RecreateBackBufferTexture, whose locals end with it; on
\* success GetBackbuffer returns.
RecreateFinish(Outcomes) ==
    /\ rt.pc = "create"
    /\ \E outcome \in Outcomes :
         LET res == RecreateBackBufferTexture(dev, rt.w, rt.h, rt.format, outcome)
         IN  /\ dev' = res.dev
             /\ rt' = IF res.ok
                      THEN [rt EXCEPT !.pc = "idle", !.ret = 0,
                                      !.w = 0, !.h = 0, !.format = "SDL_PIXELFORMAT_UNKNOWN",
                                      !.texture = BackbufferTexture(res.dev)]
                      ELSE [rt EXCEPT !.pc = "retry", !.cause = res.err,
                                      !.w = 0, !.h = 0, !.format = "SDL_PIXELFORMAT_UNKNOWN"]
    /\ UNCHANGED win
    /\ UNCHANGED <<cmdvars, rsrc>>

\* A failure path that leaves the flag as the compare-and-swap left it.
NoRetry(flag) == flag

\* SDL_AtomicSet(&gl_data->window_size_changed, 1); // retry next time
RetryNextTime(flag) == 1

GetBackbufferRetry ==
    /\ rt.pc = "retry"
    /\ dev' = [dev EXCEPT !.window_size_changed = RetryNextTime(@)]
    /\ rt' = [rt EXCEPT !.pc = "idle", !.ret = -1]
    /\ UNCHANGED win
    /\ UNCHANGED <<cmdvars, rsrc>>

\* A failure path that stores the interval only when the platform took it.
StoreAppliedInterval(swap_interval, swapinterval, applied) ==
    IF applied THEN swapinterval ELSE swap_interval

\* "store swap interval even if it fails, don't retry every frame"
StoreSwapInterval(swap_interval, swapinterval, applied) == swapinterval

\* The calls of SDL_GL_SetSwapInterval one Present makes.  Its result, 0 or
\* -1, is below 1 either way, so a request for -1 is followed by one for 1.
SetSwapIntervalCalls(swap_interval, swapinterval) ==
    IF swapinterval # swap_interval
    THEN IF swapinterval = -1 THEN <<-1, 1>> ELSE <<swapinterval>>
    ELSE <<>>

\* The interval the platform uses after a sequence of requests, each
\* taken (TRUE) or rejected (FALSE).
RECURSIVE AppliedInterval(_, _, _)
AppliedInterval(interval, calls, taken) ==
    IF calls = <<>> THEN interval
    ELSE AppliedInterval(IF Head(taken) THEN Head(calls) ELSE interval,
                         Tail(calls), Tail(taken))

\* OPENGL_GpuPresent of the claimed window and the texture the latest
\* GetBackbuffer handed back, for a device without a label.  tick flips at
\* every call; swapinterval, swap_calls and applied are what the latest call
\* was given, the SDL_GL_SetSwapInterval calls it made and whether its first
\* one was taken; asserted holds its assertions whose condition was false.
Present(Intervals) ==
    /\ rt.pc = "idle"
    /\ dev.driverdata # NULL
    /\ dev.window = "window"
    /\ \E swapinterval \in Intervals, taken \in [1 .. 2 -> BOOLEAN], r \in {0, -1} :
         LET calls == SetSwapIntervalCalls(dev.swap_interval, swapinterval)
             applied == calls # <<>> /\ taken[1]
         IN  /\ Len(calls) < 2 => taken[2]
             /\ calls = <<>> => taken[1]
             /\ dev' = [dev EXCEPT !.swap_interval =
                                      StoreSwapInterval(@, swapinterval, applied)]
             /\ win' = [win EXCEPT !.interval =
                                      AppliedInterval(@, calls, <<taken[1], taken[2]>>)]
             /\ gl' = [gl EXCEPT !.state.viewport = [x |-> 0, y |-> 0,
                                                     w |-> dev.w_backbuffer,
                                                     h |-> dev.h_backbuffer],
                                 !.state.scissor_test = TRUE]
             /\ rt' = [rt EXCEPT !.op = "Present", !.ret = r, !.tick = ~@,
                                 !.swapinterval = swapinterval,
                                 !.swap_calls = calls,
                                 !.applied = applied,
                                 !.asserted = Violated(
                                     [backbuffer |-> BackbufferAssertion(
                                                         rt.texture.driverdata, dev),
                                      window |-> WindowAssertion("window", dev)])]
    /\ UNCHANGED <<arena, heap, driverdata, pass, status, rsrc>>

\* SDL_calloc(1, sizeof(OGL_GpuDevice)); driverdata is device->driverdata.
\* textures and attached describe the native side and are not part of the
\* block; watched tells that WindowEventWatch is registered with the block
\* as its user_data.
ZeroDevice ==
    [driverdata |-> 1, context |-> 0, window |-> "NULL", dummy_window |-> FALSE,
     fbo_backbuffer |-> 0, texture_backbuffer |-> 0,
     texture_backbuffer_format |-> "SDL_GPUPIXELFMT_INVALID",
     w_backbuffer |-> 0, h_backbuffer |-> 0, swap_interval |-> 0,
     max_anisotropy |-> 0, max_texture_size |-> 0, max_texture_depth |-> 0,
     max_buffer_size |-> 0, max_vertex_attrib |-> 0,
     window_size_changed |-> 0,
     textures |-> {}, attached |-> 0, watched |-> FALSE]

\* A device whose driverdata is NULL.
NoDevice == [ZeroDevice EXCEPT !.driverdata = NULL]

\* What glGetIntegerv answers for GL_MAX_TEXTURE_MAX_ANISOTROPY,
\* GL_MAX_VERTEX_ATTRIBS, GL_MAX_TEXTURE_SIZE and GL_MAX_3D_TEXTURE_SIZE: the
\* least values an OpenGL 4.6 context may give.
GLLimits ==
    [max_anisotropy |-> 16, max_vertex_attrib |-> 16,
     max_texture_size |-> 16384, max_texture_depth |-> 2048]

\* gl_data->max_buffer_size = 128*1024*1024
MaxBufferSize == 128 * 1024 * 1024

\* The size of the hidden window, 256 x 256 in the code.
DummyWindowSize == [w |-> 2, h |-> 2]

\* A native context in which no framebuffer was created yet.
NewContext == [CreateDeviceContext EXCEPT !.fbo_next = 1, !.fbos = {}]

\* OPENGL_GpuDestroyDevice on device d, platform p and native context g.
\* hidden and contexts count the hidden windows and native contexts that
\* exist.
OPENGL_GpuDestroyDevice(d, p, g) ==
    IF d.driverdata = NULL THEN [dev |-> d, win |-> p, gl |-> g]
    ELSE [dev |-> [NoDevice EXCEPT
                     !.textures = IF d.texture_backbuffer # 0
                                  THEN d.textures \ {d.texture_backbuffer}
                                  ELSE d.textures],
          win |-> [p EXCEPT
                     !.contexts = IF d.context # 0 THEN @ - 1 ELSE @,
                     !.current = IF d.context # 0 THEN "none" ELSE @,
                     !.hidden = IF d.dummy_window /\ d.window # "NULL" THEN @ - 1 ELSE @,
                     !.dangling = DanglingWatch(@, d.watched)],
          gl |-> IF d.fbo_backbuffer # 0
                 THEN [g EXCEPT !.fbos = @ \ {d.fbo_backbuffer}]
                 ELSE g]

\* The steps at which OPENGL_GpuCreateDevice can fail before it creates the
\* backbuffer texture; "none" when it reaches that step.
CreateSteps ==
    {"SDL_calloc", "SDL_GL_CreateContext", "SDL_GL_GetProcAddress", "version",
     "glCreateFramebuffers", "none"}

\* OPENGL_GpuCreateDevice on platform p: fail is the step that fails, fmt
\* the pixel format of the hidden window and outcome what the native side
\* does with the backbuffer texture.  watch: the event watch is registered.
OPENGL_GpuCreateDevice(p, fail, fmt, outcome) ==
    LET p1 == [p EXCEPT !.hidden = @ + 1]
        d1 == [ZeroDevice EXCEPT !.window = "dummy_opengl_window", !.dummy_window = TRUE]
        d2 == [d1 EXCEPT !.context = 1, !.watched = TRUE]
        p2 == [p1 EXCEPT !.contexts = @ + 1, !.current = "dummy_opengl_window",
                         !.watch = TRUE, !.interval = 0]
        d3 == [d2 EXCEPT !.max_anisotropy = GLLimits.max_anisotropy,
                         !.max_vertex_attrib = GLLimits.max_vertex_attrib,
                         !.max_buffer_size = MaxBufferSize,
                         !.max_texture_size = GLLimits.max_texture_size,
                         !.max_texture_depth = GLLimits.max_texture_depth]
        g1 == NewContext
        g2 == CreateDeviceContext
        d4 == [d3 EXCEPT !.fbo_backbuffer = g1.fbo_next]
        res == RecreateBackBufferTexture(d4, DummyWindowSize.w, DummyWindowSize.h,
                                         fmt, outcome)
        error(d, pp, g) ==
            LET x == OPENGL_GpuDestroyDevice(d, pp, g)
            IN  [dev |-> x.dev, win |-> x.win, gl |-> x.gl, ret |-> -1, err |-> fail]
    IN  CASE fail = "SDL_calloc"            -> error(NoDevice, p1, g1)
          [] fail = "SDL_GL_CreateContext"  -> error(d1, p1, g1)
          [] fail = "SDL_GL_GetProcAddress" -> error(d2, p2, g1)
          [] fail = "version"               -> error(d2, p2, g1)
          [] fail = "glCreateFramebuffers"  -> error(d3, p2, g1)
          [] OTHER -> IF res.ok
                      THEN [dev |-> res.dev, win |-> p2, gl |-> g2, ret |-> 0, err |-> ""]
                      ELSE [error(res.dev, p2, g2) EXCEPT !.err = res.err]

(***************************************************************************)
(* Resources.  rsrc holds one application object of each kind with its     *)
(* driverdata, the native objects that exist (live, by kind of name), and   *)
(* what the latest call was given and did: created and deleted count the   *)
(* native objects it allocated and the native delete calls it made.        *)
(* stale_delete tells that some delete call named an object that did not   *)
(* exist.  The application hands Create a fresh object, its driverdata     *)
(* NULL.  label tells that the object of the call has a label; pushes and  *)
(* pops count the glPushDebugGroup and glPopDebugGroup calls of the call.  *)
(***************************************************************************)
Namespaces == {"buffer", "texture", "shader", "program", "vao", "sampler"}

NoArg ==
    [buflen |-> 0, width |-> 0, height |-> 0, depth_or_slices |-> 0,
     num_vertex_attributes |-> 0]

NoResources ==
    [cpubuffer |-> NULL, buffer |-> NULL, texture |-> NULL,
     vertex_shader |-> NULL, fragment_shader |-> NULL, sampler |-> NULL,
     pipeline |-> [vao |-> 0, program |-> 0],
     texture_type |-> "SDL_GPUTEXTYPE_2D",
     live |-> [ns \in Namespaces |-> {}],
     stale_delete |-> FALSE,
     last |-> [op |-> "none", obj |-> "none", arg |-> NoArg, ret |-> 0,
               err |-> "", created |-> 0, deleted |-> 0, stage |-> "none",
               src |-> <<>>, label |-> FALSE, pushes |-> 0, pops |-> 0]]

\* A call op on object obj begins.
Called(r, op, obj, arg) ==
    [r EXCEPT !.last = [op |-> op, obj |-> obj, arg |-> arg, ret |-> 0,
                        err |-> "", created |-> 0, deleted |-> 0, stage |-> "none",
                        src |-> <<>>, label |-> FALSE, pushes |-> 0, pops |-> 0]]

\* return SDL_SetError(err) and the other returns.
ResourceReturn(r, ret, err) == [r EXCEPT !.last.ret = ret, !.last.err = err]

\* glCreate*: a name that no existing object of the kind has.
NewName(live) == CHOOSE n \in 1 .. (Cardinality(live) + 1) : n \notin live

glCreate(r, ns) ==
    [r EXCEPT !.live[ns] = @ \cup {NewName(@)}, !.last.created = @ + 1]

\* A delete call that leaves the object alive.
glDeleteNothing(r, ns, name) ==
    [r EXCEPT !.stale_delete = @ \/ name \notin r.live[ns],
              !.last.deleted = @ + 1]

\* glDelete*(name)
glDelete(r, ns, name) ==
    [r EXCEPT !.live[ns] = @ \ {name},
              !.stale_delete = @ \/ name \notin r.live[ns],
              !.last.deleted = @ + 1]

\* PushDebugGroup and glPopDebugGroup in a call on a resource.
ResPushDebugGroup(r) == [r EXCEPT !.last.pushes = @ + 1]
ResPopDebugGroup(r) == [r EXCEPT !.last.pops = @ + 1]

\* A Destroy that leaves the handle in the object.
KeepHandle(glid) == glid

\* buffer->driverdata = NULL, and the same line of the other kinds.
ClearHandle(glid) == NULL

\* A comparison that also refuses a description at the limit.
ReachesLimit(value, limit) == value >= limit

\* The comparison of a description with a limit of the device.
ExceedsLimit(value, limit) == value > limit

OPENGL_GpuCreateCpuBuffer(r, d, buflen) ==
    IF ExceedsLimit(buflen, d.max_buffer_size)
    THEN ResourceReturn(r, -1, "Cpu buffer too large")
    ELSE [glCreate(r, "buffer") EXCEPT !.cpubuffer = NewName(r.live["buffer"])]

OPENGL_GpuDestroyCpuBuffer(r) ==
    LET glid == r.cpubuffer
        r1 == IF glid # 0 THEN glDelete(r, "buffer", glid) ELSE r
    IN  [r1 EXCEPT !.cpubuffer = ClearHandle(glid)]

OPENGL_GpuCreateBuffer(r, d, buflen) ==
    IF ExceedsLimit(buflen, d.max_buffer_size)
    THEN ResourceReturn(r, -1, "Gpu buffer too large")
    ELSE [glCreate(r, "buffer") EXCEPT !.buffer = NewName(r.live["buffer"])]

OPENGL_GpuDestroyBuffer(r) ==
    LET glid == r.buffer
        r1 == IF glid # 0 THEN glDelete(r, "buffer", glid) ELSE r
    IN  [r1 EXCEPT !.buffer = ClearHandle(glid)]

\* ToGLTextureTarget; "0" for a value that is no texture type.
ToGLTextureTarget(data_type) ==
    CASE data_type = "SDL_GPUTEXTYPE_1D"         -> "GL_TEXTURE_1D"
      [] data_type = "SDL_GPUTEXTYPE_1D_ARRAY"   -> "GL_TEXTURE_1D_ARRAY"
      [] data_type = "SDL_GPUTEXTYPE_CUBE"       -> "GL_TEXTURE_CUBE_MAP"
      [] data_type = "SDL_GPUTEXTYPE_2D"         -> "GL_TEXTURE_2D"
      [] data_type = "SDL_GPUTEXTYPE_3D"         -> "GL_TEXTURE_3D"
      [] data_type = "SDL_GPUTEXTYPE_2D_ARRAY"   -> "GL_TEXTURE_2D_ARRAY"
      [] data_type = "SDL_GPUTEXTYPE_CUBE_ARRAY" -> "GL_TEXTURE_CUBE_MAP_ARRAY"
      [] OTHER                                   -> "0"

\* ToGLInternalFormat; "0" where the code returns 0.
ToGLInternalFormat(data_format) ==
    CASE data_format = "SDL_GPUPIXELFMT_B5G6R5"           -> "GL_RGB565"
      [] data_format = "SDL_GPUPIXELFMT_BGR5A1"           -> "GL_RGB5_A1"
      [] data_format = "SDL_GPUPIXELFMT_RGBA8"            -> "GL_RGBA8"
      [] data_format = "SDL_GPUPIXELFMT_RGBA8_sRGB"       -> "GL_SRGB8_ALPHA8"
      [] data_format = "SDL_GPUPIXELFMT_Depth24_Stencil8" -> "GL_DEPTH24_STENCIL8"
      [] OTHER                                            -> "0"

\* OPENGL_GpuCreateTexture on description desc; shader_usage: desc.usage
\* has SDL_GPUTEXUSAGE_SHADER_READ or SDL_GPUTEXUSAGE_SHADER_WRITE; named:
\* glCreateTextures gives a name.
OPENGL_GpuCreateTexture(r, d, desc, named) ==
    IF desc.shader_usage
    THEN ResourceReturn(r, -1, "pixel format not renderable")
    ELSE IF ExceedsLimit(desc.width, d.max_texture_size)
            \/ ExceedsLimit(desc.height, d.max_texture_size)
            \/ ExceedsLimit(desc.depth_or_slices, d.max_texture_depth)
    THEN ResourceReturn(r, -1, "texture too big")
    ELSE IF ToGLInternalFormat(desc.pixel_format) = "0"
    THEN ResourceReturn(r, -1, "That operation is not supported")
    ELSE IF ToGLTextureTarget(desc.texture_type) = "0"
    THEN ResourceReturn(r, -1, "That operation is not supported")
    ELSE IF ~named
    THEN ResourceReturn(r, -1, "could not create texture: OpenGL error")
    ELSE [glCreate(r, "texture") EXCEPT !.texture = NewName(r.live["texture"]),
                                        !.texture_type = desc.texture_type]

OPENGL_GpuDestroyTexture(r) ==
    LET glid == r.texture
        r1 == IF glid # 0 THEN glDelete(r, "texture", glid) ELSE r
    IN  [r1 EXCEPT !.texture = ClearHandle(glid)]

\* CreateShader: what glCreateShader and the compilation give; a shader
\* that does not compile is deleted again.
ShaderOutcomes == {"ok", "noshader", "nocompile"}

\* A C string is the sequence of its characters; past its end is the NUL.
CharAt(str, i) == IF i <= Len(str) THEN str[i] ELSE "NUL"

\* SDL_strncmp(str1, str2, maxlen) == 0
StrNEqual(str1, str2, maxlen) ==
    \A i \in 1 .. maxlen :
        (\A j \in 1 .. (i - 1) : CharAt(str1, j) # "NUL") =>
            CharAt(str1, i) = CharAt(str2, i)

VertMarker == <<"/", "/", " ", "v", "e", "r", "t">>
FragMarker == <<"/", "/", " ", "f", "r", "a", "g">>

\* The stage the first seven characters of the source name, "none" when
\* they name none.
ShaderStage(bytecode) ==
    IF StrNEqual(bytecode, VertMarker, 7) THEN "vert"
    ELSE IF StrNEqual(bytecode, FragMarker, 7) THEN "frag"
    ELSE "none"

\* OPENGL_GpuCreateShader of the object obj ("vertex_shader" or
\* "fragment_shader") from the source bytecode; stage is the type given to
\* glCreateShader.  The group is pushed for a labelled shader only, popped
\* on the successful return only, and there whether labelled or not.  The
\* return without marker sets no error.
OPENGL_GpuCreateShader(r, obj, bytecode, outcome) ==
    LET shader == NewName(r.live["shader"])
        marker == ShaderStage(bytecode)
        is_vert_shader == marker = "vert"
        r0 == IF r.last.label THEN ResPushDebugGroup(r) ELSE r
        r1 == [r0 EXCEPT !.last.stage = IF is_vert_shader THEN "GL_VERTEX_SHADER"
                                        ELSE "GL_FRAGMENT_SHADER"]
    IN  IF marker = "none"
        THEN ResourceReturn(r0, -1, "")
        ELSE IF outcome = "noshader"
        THEN ResourceReturn(r1, -1, "could not create shader: OpenGL error")
        ELSE IF outcome = "nocompile"
        THEN ResourceReturn(glDelete(glCreate(r1, "shader"), "shader", shader), -1,
                            "vertex shader compilation failed: OpenGL error")
        ELSE ResPopDebugGroup([glCreate(r1, "shader") EXCEPT ![obj] = shader])

OPENGL_GpuDestroyShader(r, obj) ==
    LET shader_glid == r[obj]
        r1 == IF shader_glid # 0 THEN glDelete(r, "shader", shader_glid) ELSE r
    IN  [r1 EXCEPT ![obj] = ClearHandle(shader_glid)]

\* CreateProgram: what glCreateProgram, linking and validation give; a
\* program that does not link or validate is deleted again.
ProgramOutcomes == {"ok", "noprogram", "nolink", "novalidate"}

\* OPENGL_GpuCreatePipeline; driverdata is vao << 32 | program, kept as its
\* two halves.  has_vao: glCreateVertexArrays gives a name.  The group is
\* pushed for a labelled description only and popped on every return,
\* labelled or not.
OPENGL_GpuCreatePipeline(r, d, num_vertex_attributes, has_vao, outcome) ==
    LET r0 == IF r.last.label THEN ResPushDebugGroup(r) ELSE r
        vao == NewName(r.live["vao"])
        r1 == glCreate(r0, "vao")
        program == NewName(r.live["program"])
        r2 == glCreate(r1, "program")
    IN  IF ExceedsLimit(num_vertex_attributes, d.max_vertex_attrib)
        THEN ResourceReturn(ResPopDebugGroup(r0), -1, "too many vertex attribute")
        ELSE IF ~has_vao
        THEN ResourceReturn(ResPopDebugGroup(r0), -1,
                            "could not create vertex array: OpenGL error")
        ELSE IF outcome = "noprogram"
        THEN ResourceReturn(ResPopDebugGroup(glDelete(r1, "vao", vao)), -1,
                            "could not create shader program: OpenGL error")
        ELSE IF outcome = "nolink"
        THEN ResourceReturn(ResPopDebugGroup(
                                glDelete(glDelete(r2, "program", program), "vao", vao)), -1,
                            "shader program link failed: OpenGL error")
        ELSE IF outcome = "novalidate"
        THEN ResourceReturn(ResPopDebugGroup(
                                glDelete(glDelete(r2, "program", program), "vao", vao)), -1,
                            "shader program valiation failed: OpenGL error")
        ELSE ResPopDebugGroup([r2 EXCEPT !.pipeline = [vao |-> vao, program |-> program]])

OPENGL_GpuDestroyPipeline(r) ==
    LET program_glid == r.pipeline.program
        vao_glid == r.pipeline.vao
        r1 == IF program_glid # 0 THEN glDelete(r, "program", program_glid) ELSE r
        r2 == IF vao_glid # 0 THEN glDelete(r1, "vao", vao_glid) ELSE r1
    IN  [r2 EXCEPT !.pipeline = [vao |-> ClearHandle(vao_glid),
                                 program |-> ClearHandle(program_glid)]]

\* OPENGL_GpuCreateSampler; named: glCreateSamplers gives a name.
OPENGL_GpuCreateSampler(r, named) ==
    IF ~named
    THEN ResourceReturn(r, -1, "could not create sampler: OpenGL error")
    ELSE [glCreate(r, "sampler") EXCEPT !.sampler = NewName(r.live["sampler"])]

OPENGL_GpuDestroySampler(r) ==
    LET glid == r.sampler
        r1 == IF glid # 0 THEN glDelete(r, "sampler", glid) ELSE r
    IN  [r1 EXCEPT !.sampler = ClearHandle(glid)]

\* The calls on resources: Create on a fresh object, Destroy on any.
ResourceCall(next) ==
    /\ rt.pc = "idle"
    /\ dev.driverdata # NULL
    /\ rsrc' = next
    /\ UNCHANGED <<arena, heap, driverdata, pass, status, gl, dev, win, rt>>

CreateCpuBuffer(Lens) ==
    /\ rsrc.cpubuffer = NULL
    /\ \E buflen \in Lens :
         ResourceCall(OPENGL_GpuCreateCpuBuffer(
             Called(rsrc, "CreateCpuBuffer", "cpubuffer", [NoArg EXCEPT !.buflen = buflen]), dev, buflen))

DestroyCpuBuffer ==
    ResourceCall(OPENGL_GpuDestroyCpuBuffer(Called(rsrc, "DestroyCpuBuffer", "cpubuffer", NoArg)))

CreateBuffer(Lens) ==
    /\ rsrc.buffer = NULL
    /\ \E buflen \in Lens :
         ResourceCall(OPENGL_GpuCreateBuffer(
             Called(rsrc, "CreateBuffer", "buffer", [NoArg EXCEPT !.buflen = buflen]), dev, buflen))

DestroyBuffer ==
    ResourceCall(OPENGL_GpuDestroyBuffer(Called(rsrc, "DestroyBuffer", "buffer", NoArg)))

CreateTexture(Descs) ==
    /\ rsrc.texture = NULL
    /\ \E desc \in Descs, named \in BOOLEAN :
         ResourceCall(OPENGL_GpuCreateTexture(
             Called(rsrc, "CreateTexture", "texture",
                    [NoArg EXCEPT !.width = desc.width, !.height = desc.height,
                                  !.depth_or_slices = desc.depth_or_slices]),
             dev, desc, named))

DestroyTexture ==
    ResourceCall(OPENGL_GpuDestroyTexture(Called(rsrc, "DestroyTexture", "texture", NoArg)))

CreateShader(Sources, Labels) ==
    \E obj \in {"vertex_shader", "fragment_shader"}, label \in Labels,
       bytecode \in Sources, outcome \in ShaderOutcomes :
         /\ rsrc[obj] = NULL
         /\ ShaderStage(bytecode) = "none" => outcome = "ok"
         /\ ResourceCall(OPENGL_GpuCreateShader(
                [Called(rsrc, "CreateShader", obj, NoArg) EXCEPT !.last.src = bytecode,
                                                                 !.last.label = label],
                obj, bytecode, outcome))

DestroyShader ==
    \E obj \in {"vertex_shader", "fragment_shader"} :
         ResourceCall(OPENGL_GpuDestroyShader(Called(rsrc, "DestroyShader", obj, NoArg), obj))

\* The shaders of a pipeline description have been created.  CreateProgram
\* is reached with a vertex array only, so outcome is drawn only then.
CreatePipeline(Counts, Labels) ==
    /\ rsrc.pipeline = [vao |-> 0, program |-> 0]
    /\ rsrc.vertex_shader # 0
    /\ rsrc.fragment_shader # 0
    /\ \E n \in Counts, label \in Labels, has_vao \in BOOLEAN,
          outcome \in ProgramOutcomes :
         /\ ~has_vao => outcome = "ok"
         /\ ResourceCall(OPENGL_GpuCreatePipeline(
             [Called(rsrc, "CreatePipeline", "pipeline",
                     [NoArg EXCEPT !.num_vertex_attributes = n])
                EXCEPT !.last.label = label],
             dev, n, has_vao, outcome))

DestroyPipeline ==
    ResourceCall(OPENGL_GpuDestroyPipeline(Called(rsrc, "DestroyPipeline", "pipeline", NoArg)))

CreateSampler ==
    /\ rsrc.sampler = NULL
    /\ \E named \in BOOLEAN :
         ResourceCall(OPENGL_GpuCreateSampler(Called(rsrc, "CreateSampler", "sampler", NoArg), named))

DestroySampler ==
    ResourceCall(OPENGL_GpuDestroySampler(Called(rsrc, "DestroySampler", "sampler", NoArg)))

\* The application's window and the platform before any device exists.
\* flags are the window's flags, interval the swap interval in use.
NoPlatform ==
    [w |-> 3, h |-> 2, flags |-> {"SDL_WINDOW_VULKAN"}, events |-> <<>>,
     signalled |-> FALSE, resized |-> FALSE,
     hidden |-> 0, contexts |-> 0, current |-> "none", watch |-> FALSE, interval |-> 0,
     dangling |-> FALSE, freed_write |-> FALSE]

\* The render thread before any call.
NoCall ==
    [pc |-> "idle", op |-> "none", ret |-> 0, swapped |-> FALSE,
     attempts |-> 0, w |-> 0, h |-> 0, format |-> "SDL_PIXELFORMAT_UNKNOWN",
     texture |-> BackbufferTexture(NoDevice),
     cause |-> "", restored |-> "none",
     tick |-> FALSE, swapinterval |-> 0, swap_calls |-> <<>>, applied |-> FALSE,
     asserted |-> {}]

\* A call of OPENGL_GpuCreateDevice when no device exists.
CreateDevice(B, Steps, Formats, Outcomes) ==
    /\ rt.pc = "idle"
    /\ dev.driverdata = NULL
    /\ win.hidden < B
    /\ \E fail \in Steps, fmt \in Formats, outcome \in Outcomes :
         LET x == OPENGL_GpuCreateDevice(win, fail, fmt, outcome)
         IN  /\ fail # "none" => (fmt = "SDL_PIXELFORMAT_ARGB8888" /\ outcome = "ok")
             /\ dev' = x.dev
             /\ win' = x.win
             /\ gl' = x.gl
             /\ rt' = [NoCall EXCEPT !.op = "CreateDevice", !.ret = x.ret,
                                     !.tick = rt.tick,
                                     !.cause = x.err,
                                     !.texture = BackbufferTexture(x.dev)]
    /\ UNCHANGED <<arena, heap, driverdata, pass, status, rsrc>>

\* A call of OPENGL_GpuDestroyDevice on the device.
DestroyDevice ==
    /\ rt.pc = "idle"
    /\ dev.driverdata # NULL
    /\ LET x == OPENGL_GpuDestroyDevice(dev, win, gl)
       IN  /\ dev' = x.dev
           /\ win' = x.win
           /\ gl' = x.gl
    /\ rt' = [rt EXCEPT !.op = "DestroyDevice", !.ret = 0]
    /\ UNCHANGED <<arena, heap, driverdata, pass, status, rsrc>>

\* The device, platform and context after a successful
\* OPENGL_GpuCreateDevice.
Created == OPENGL_GpuCreateDevice(NoPlatform, "none", "SDL_PIXELFORMAT_ARGB8888", "ok")

(***************************************************************************)
(* The state after OPENGL_GpuCreateDevice and                              *)
(* OPENGL_GpuCreateCommandBuffer.                                          *)
(***************************************************************************)
Init ==
    /\ arena = CreateCommandBuffer
    /\ heap = [next_addr |-> 2, live |-> {1}, freed |-> <<>>,
               label_next |-> 1, labels |-> {}, label_frees |-> <<>>,
               overrun |-> FALSE, wild |-> FALSE]
    /\ driverdata = 1
    /\ pass = [kind |-> "none", id |-> 0, driverdata |-> NULL, session |-> ZeroPassData]
    /\ status = [phase |-> "recording", op |-> "CreateCommandBuffer", ret |-> 0, err |-> "",
                 failed |-> FALSE, args |-> [x |-> 0, y |-> 0, w |-> 0, h |-> 0],
                 targets |-> [ca |-> <<>>, da |-> <<>>, sa |-> <<>>]]
    /\ gl = Created.gl
    /\ dev = Created.dev
    /\ win = Created.win
    /\ rt = [NoCall EXCEPT !.op = "CreateDevice", !.texture = BackbufferTexture(Created.dev)]
    /\ rsrc = NoResources

(***************************************************************************)
(* Arguments the specifications draw from.                                 *)
(***************************************************************************)
Labels == {NULL, 1}

Texture(glid, height) == [driverdata |-> glid, height |-> height]

ColorAttachment(texture, init, clear_red) ==
    [texture |-> texture, color_init |-> init, clear_red |-> clear_red]

\* One cleared colour target in every slot the model exercises.
ClearedTargets(height) ==
    [i \in 1 .. MaxSlots |-> ColorAttachment(Texture(10 + i, height), "SDL_GPUPASSINIT_CLEAR", 0)]

StencilSide ==
    [stencil_function |-> "SDL_GPUCMPFUNC_ALWAYS", stencil_reference |-> 0,
     stencil_read_mask |-> 255, stencil_write_mask |-> 255,
     stencil_fail |-> "SDL_GPUSTENCILOP_KEEP", depth_fail |-> "SDL_GPUSTENCILOP_KEEP",
     depth_and_stencil_pass |-> "SDL_GPUSTENCILOP_KEEP"]

PipelineColor(enabled, op, src, dst) ==
    [blending_enabled |-> enabled,
     rgb_blend_op |-> op, alpha_blend_op |-> op,
     rgb_src_blend_factor |-> src, alpha_src_blend_factor |-> src,
     rgb_dst_blend_factor |-> dst, alpha_dst_blend_factor |-> dst,
     writemask_enabled_red |-> TRUE, writemask_enabled_green |-> TRUE,
     writemask_enabled_blue |-> TRUE, writemask_enabled_alpha |-> TRUE]

\* A pipeline object: its native names and its description.
Pipeline(id, label, colour, cull_face, front_face) ==
    [driverdata |-> [vao |-> id, program |-> 20 + id],
     desc |-> [label |-> label,
               primitive |-> "SDL_GPUPRIM_TRIANGLE",
               vertices |-> <<[stride |-> 16]>>,
               num_color_attachments |-> MaxSlots,
               color_attachments |-> [i \in 1 .. MaxSlots |-> colour],
               depth_write_enabled |-> TRUE,
               depth_function |-> "SDL_GPUCMPFUNC_LESS",
               depth_bias_scale |-> 0, depth_bias |-> 0, depth_bias_clamp |-> 0,
               depth_stencil_front |-> StencilSide,
               depth_stencil_back |-> StencilSide,
               fill_mode |-> "SDL_GPUFILL_FILL",
               front_face |-> front_face,
               cull_face |-> cull_face]]

Opaque == PipelineColor(FALSE, "SDL_GPUBLENDOP_ADD", "SDL_GPUBLENDFACTOR_ONE",
                        "SDL_GPUBLENDFACTOR_ZERO")

PipelineP ==
    Pipeline(1, 2, Opaque, "SDL_GPUCULLFACE_NONE", "SDL_GPUFRONTFACE_COUNTER_CLOCKWISE")

IndexBuffer == [driverdata |-> 30, buflen |-> 64]

(***************************************************************************)
(* The command buffer: recording in well-formed order, then submission or  *)
(* abandon.                                                                *)
(***************************************************************************)
RecStartRenderPass ==
    StartRenderPass(MaxCmds, Labels, {ClearedTargets(4)}, {<<>>}, {<<>>}, ReallocOutcomes)
RecSetRenderPassPipeline == SetRenderPassPipeline(MaxCmds, {PipelineP}, ReallocOutcomes)
RecSetRenderPassViewport ==
    SetRenderPassViewport(MaxCmds, {[x |-> 0, y |-> 0, w |-> 4 * Unit, h |-> 4 * Unit]},
                          ReallocOutcomes)
RecDraw == Draw(MaxCmds, {[vertex_start |-> 0, vertex_count |-> 3]}, ReallocOutcomes)
RecDrawIndexed ==
    DrawIndexed(MaxCmds, {[index_buffer |-> IndexBuffer, index_count |-> 3,
                           index_type |-> "SDL_GPUINDEXTYPE_UINT16", index_offset |-> 0]},
                ReallocOutcomes)
RecEndRenderPass == EndRenderPass(MaxCmds, ReallocOutcomes)
RecStartBlitPass == StartBlitPass(MaxCmds, Labels, ReallocOutcomes)
RecCopyBuffer ==
    CopyBuffer(MaxCmds, {[srcbuf |-> 30, srcoffset |-> 0, dstbuf |-> 31, dstoffset |-> 0,
                          length |-> 8]}, ReallocOutcomes)
RecEndBlitPass == EndBlitPass(MaxCmds, ReallocOutcomes)
RecSubmit ==
    SubmitCommandBuffer(ReallocOutcomes,
                        {"nofbo", "GL_FRAMEBUFFER_INCOMPLETE_MISSING_ATTACHMENT",
                         "GL_FRAMEBUFFER_UNSUPPORTED"})

Next ==
    \/ RecStartRenderPass
    \/ RecSetRenderPassPipeline
    \/ RecSetRenderPassViewport
    \/ RecDraw
    \/ RecDrawIndexed
    \/ RecEndRenderPass
    \/ RecStartBlitPass
    \/ RecCopyBuffer
    \/ RecEndBlitPass
    \/ RecSubmit
    \/ AbandonCommandBuffer

Spec == Init /\ [][Next]_vars

(***************************************************************************)
(* Properties of the command buffer.                                       *)
(***************************************************************************)
\* The records appended while recording, without the sentinel.
Recorded == SelectSeq(arena.cmd, LAMBDA e : e.rec.type # "CMD_NONE")

\* Every recording call succeeded, SubmitCommandBuffer has returned 0 and
\* the native side did not fail.
Replayed == status.phase = "submitted" /\ ~status.failed /\ ~gl.fbo_failed

\* The native calls of running the routines of the recorded commands
\* directly, in record order, on the context the device was created with.
DirectCalls ==
    Replay([es |-> CreateCommandBuffer.exec_state, heap |-> heap,
            gl |-> CreateDeviceContext, ret |-> 0, err |-> ""],
           arena, 0, [off |-> -1, how |-> "ok"], Len(arena.cmd) + 1).gl.calls

\* How often v occurs in the sequence s.
Count(s, v) == Cardinality({k \in DOMAIN s : s[k] = v})

\* C1: after a submission that returned 0, replay has run the routine of
\* every recorded command exactly once, in record order, with the recorded
\* payload, and the native calls are those of running the routines directly
\* in that order.
C1_ReplayInRecordOrder ==
    Replayed =>
        /\ Len(gl.log) = Len(Recorded)
        /\ \A k \in DOMAIN gl.log :
              /\ k \in DOMAIN Recorded
              /\ gl.log[k].off = Recorded[k].off
              /\ gl.log[k].rec = Recorded[k].rec
        /\ gl.calls = DirectCalls

\* C2: a submission that returned 0 after a recording without errors read
\* the records from the block that holds the sentinel and released that
\* block: it read no released block, the block it freed is
\* cmdbuf->driverdata, and nothing was freed twice.
C2_SubmitUsesCurrentArena ==
    (status.phase = "submitted" /\ ~status.failed) =>
        /\ ~gl.stale_read
        /\ heap.freed[Len(heap.freed)] = driverdata
        /\ driverdata \notin heap.live
        /\ \A addr \in 1 .. heap.next_addr : Count(heap.freed, addr) <= 1

\* C4: while a render pass is being recorded, its driverdata points at the
\* pass data inside the live block of the command buffer, that block knows
\* the pass as its current one, the pass data is what the calls of the
\* session wrote, and no call went through a released block.
C4_PassPointsIntoArena ==
    (status.phase = "recording" /\ pass.kind = "render") =>
        /\ pass.driverdata = driverdata
        /\ driverdata \in heap.live
        /\ arena.encoding_state.current_render_pass = pass.id
        /\ arena.encoding_state.currrent_render_pass_data = pass.session
        /\ ~heap.wild

\* A pass is open, the append of SetRenderPassPipeline has moved the arena
\* while it was open, and a Draw recorded afterwards took the primitive the
\* pipeline had stored in the pass data.
C4_Witness ==
    /\ status.phase = "recording"
    /\ pass.kind = "render"
    /\ Len(arena.cmd) = 3
    /\ arena.cmd[1].rec.type = "CMD_START_RENDER_PASS"
    /\ arena.cmd[2].rec.type = "CMD_SET_PIPELINE"
    /\ arena.cmd[3].rec.type = "CMD_DRAW"
    /\ arena.cmd[3].rec.mode = "GL_TRIANGLES"
    /\ arena.capacity_cmd = 2 * InitialCapacity
    /\ driverdata # 1
    /\ 1 \notin heap.live

\* C5: when a submission has returned 0, every label duplicated while
\* recording has been handed to SDL_free exactly once, and SDL_free was
\* never called for a command without a label.
C5_LabelsFreedOnce ==
    (Replayed /\ ~gl.stale_read
       /\ heap.label_next - 1 =
            Cardinality({k \in DOMAIN Recorded :
                           \/ /\ "pass_label" \in DOMAIN Recorded[k].rec
                              /\ Recorded[k].rec.pass_label # NULL
                           \/ /\ "pipeline_label" \in DOMAIN Recorded[k].rec
                              /\ Recorded[k].rec.pipeline_label # NULL})) =>
        /\ \A l \in 1 .. (heap.label_next - 1) : Count(heap.label_frees, l) = 1
        /\ Count(heap.label_frees, NULL) = 0

\* C6: after AbandonCommandBuffer on a command buffer whose recording calls
\* all succeeded, no duplicated label is still allocated, each was freed
\* once, the arena is released and no command was executed.
C6_AbandonFreesLabels ==
    (status.phase = "abandoned" /\ ~status.failed) =>
        /\ heap.labels = {}
        /\ \A l \in 1 .. (heap.label_next - 1) : Count(heap.label_frees, l) = 1
        /\ heap.live = {}
        /\ gl.log = <<>>

\* C7: when no recording call has failed, no block of the arena is released
\* twice; once the command buffer is submitted or abandoned no block of it
\* is left allocated; and until then (also after a submission that failed
\* at the sentinel) exactly the block cmdbuf->driverdata points at is
\* allocated.
C7_ArenaReleasedOnce ==
    ~status.failed =>
        /\ \A addr \in 1 .. heap.next_addr : Count(heap.freed, addr) <= 1
        /\ status.phase \in {"submitted", "abandoned"} => heap.live = {}
        /\ status.phase = "recording" => heap.live = {driverdata}

(***************************************************************************)
(* Growth of the arena: one render pass long enough to double the capacity *)
(* more than once, then submission.                                        *)
(***************************************************************************)
\* Commands one command buffer of this specification can hold.
MaxGrowthCmds == 7

PipelineQ ==
    Pipeline(2, NULL, Opaque, "SDL_GPUCULLFACE_NONE", "SDL_GPUFRONTFACE_COUNTER_CLOCKWISE")

\* While recording, every growth of this specification relocates the arena.
GrowStartRenderPass ==
    StartRenderPass(MaxGrowthCmds, {NULL}, {ClearedTargets(4)}, {<<>>}, {<<>>}, {"moved"})
GrowSetRenderPassPipeline ==
    SetRenderPassPipeline(MaxGrowthCmds, {PipelineQ}, {"moved"})
GrowSetRenderPassViewport ==
    SetRenderPassViewport(MaxGrowthCmds,
                          {[x |-> 0, y |-> 0, w |-> 4 * Unit, h |-> 4 * Unit]},
                          {"moved"})
GrowSetRenderPassVertexBuffer ==
    SetRenderPassVertexBuffer(MaxGrowthCmds,
                              {[index |-> 0, buffer |-> IndexBuffer, offset |-> 0]},
                              {"moved"})
GrowEndRenderPass == EndRenderPass(MaxGrowthCmds, {"moved"})
GrowSubmit == SubmitCommandBuffer(ReallocOutcomes, {})

NextGrowth ==
    \/ GrowStartRenderPass
    \/ GrowSetRenderPassPipeline
    \/ GrowSetRenderPassViewport
    \/ GrowSetRenderPassVertexBuffer
    \/ GrowEndRenderPass
    \/ GrowSubmit

SpecGrowth == Init /\ [][NextGrowth]_vars

\* The bytes the recorded commands take in the arena.
RecordedSize ==
    IF Recorded = <<>> THEN 0
    ELSE Recorded[Len(Recorded)].off + SizeOfCmd(Recorded[Len(Recorded)].rec.type)

\* C3: every record lies right behind the one appended before it, the
\* capacity is the initial one doubled some number of times, and when the
\* recorded commands forced two or more growths (they take more than twice
\* the initial capacity) a submission that returned 0 has executed all of
\* them, in order, with the payloads that were recorded.
C3_GrowthKeepsRecords ==
    /\ \A k \in DOMAIN arena.cmd :
          arena.cmd[k].off =
              IF k = 1 THEN 0
              ELSE arena.cmd[k - 1].off + SizeOfCmd(arena.cmd[k - 1].rec.type)
    /\ arena.capacity_cmd \in {InitialCapacity, 2 * InitialCapacity, 4 * InitialCapacity,
                               8 * InitialCapacity}
    /\ arena.n_cmd <= arena.capacity_cmd
    /\ (Replayed /\ RecordedSize > 2 * InitialCapacity) =>
          /\ Len(gl.log) = Len(Recorded)
          /\ \A k \in DOMAIN gl.log :
                /\ k \in DOMAIN Recorded
                /\ gl.log[k].off = Recorded[k].off
                /\ gl.log[k].rec = Recorded[k].rec

(***************************************************************************)
(* Pipeline bindings: one render pass in which pipelines are bound one     *)
(* after the other, then submission.                                       *)
(***************************************************************************)
\* Commands one command buffer of this specification can hold.
MaxPipelineCmds == 5

Blended == PipelineColor(TRUE, "SDL_GPUBLENDOP_MAX", "SDL_GPUBLENDFACTOR_SOURCEALPHA",
                         "SDL_GPUBLENDFACTOR_ONEMINUSSOURCEALPHA")

\* No blending and no culling; blending and culling of clockwise back faces;
\* no blending and culling of counter-clockwise front faces.
Pipelines ==
    {Pipeline(1, NULL, Opaque, "SDL_GPUCULLFACE_NONE", "SDL_GPUFRONTFACE_CLOCKWISE"),
     Pipeline(2, NULL, Blended, "SDL_GPUCULLFACE_BACK", "SDL_GPUFRONTFACE_CLOCKWISE"),
     Pipeline(3, NULL, Opaque, "SDL_GPUCULLFACE_FRONT",
              "SDL_GPUFRONTFACE_COUNTER_CLOCKWISE")}

BindStartRenderPass ==
    StartRenderPass(MaxPipelineCmds, {NULL}, {ClearedTargets(4)}, {<<>>}, {<<>>},
                    ReallocOutcomes)
BindSetRenderPassPipeline ==
    SetRenderPassPipeline(MaxPipelineCmds, Pipelines, ReallocOutcomes)
BindEndRenderPass == EndRenderPass(MaxPipelineCmds, ReallocOutcomes)
BindSubmit == SubmitCommandBuffer(ReallocOutcomes, {})

NextPipeline ==
    \/ BindStartRenderPass
    \/ BindSetRenderPassPipeline
    \/ BindEndRenderPass
    \/ BindSubmit

SpecPipeline == Init /\ [][NextPipeline]_vars

\* The part of the native state a pipeline binding is to determine.
PipelineState(state) ==
    [blend |-> state.blend, color_mask |-> state.color_mask,
     depth_mask |-> state.depth_mask, depth_func |-> state.depth_func,
     polygon_offset |-> state.polygon_offset,
     stencil_front |-> state.stencil_front, stencil_back |-> state.stencil_back,
     polygon_mode |-> state.polygon_mode,
     cull_enable |-> state.cull_enable, front_face |-> state.front_face,
     cull_face |-> state.cull_face]

\* Replayed bindings j after i of one pass.
SamePass(i, j) ==
    /\ i < j
    /\ gl.log[i].rec.type = "CMD_SET_PIPELINE"
    /\ gl.log[j].rec.type = "CMD_SET_PIPELINE"
    /\ \A k \in i .. j : gl.log[k].rec.type # "CMD_START_RENDER_PASS"

\* C8: in a replay that read the live arena, two bindings of the same
\* pipeline inside one pass leave the same blend, depth, stencil,
\* polygon-mode and cull state, whatever was bound between them.
C8_BindingDeterminesState ==
    (Replayed /\ ~gl.stale_read) =>
        \A i, j \in DOMAIN gl.log :
            (SamePass(i, j) /\ gl.log[i].rec.vao = gl.log[j].rec.vao) =>
                PipelineState(gl.log[i].state) = PipelineState(gl.log[j].state)

(***************************************************************************)
(* Viewport and scissor: render passes over attachments of different       *)
(* heights, rectangles inside the render target, then submission.          *)
(***************************************************************************)
\* Commands one command buffer of this specification can hold.
MaxViewportCmds == 4

DepthAttachment(texture) ==
    [texture |-> texture, depth_init |-> "SDL_GPUPASSINIT_CLEAR", clear_depth |-> 1]

StencilAttachment(texture) ==
    [texture |-> texture, stencil_init |-> "SDL_GPUPASSINIT_CLEAR", clear_stencil |-> 0]

\* Slot 0 with a texture of height 6, or without a texture.
ViewColors ==
    {<<ColorAttachment(Texture(11, 6), "SDL_GPUPASSINIT_CLEAR", 0)>>,
     <<ColorAttachment(NoTexture, "SDL_GPUPASSINIT_CLEAR", 0)>>}

ViewDepths == {<<DepthAttachment(Texture(12, 4))>>, <<DepthAttachment(Texture(14, 8))>>}

ViewStencils == {<<>>, <<StencilAttachment(Texture(13, 5))>>}

\* Viewports in steps of 1/Unit, all with 0 <= y and y + h <= 4.
Viewports ==
    {[x |-> 0, y |-> 0, w |-> 4 * Unit, h |-> 4 * Unit],
     [x |-> 1 * Unit, y |-> 1 * Unit, w |-> 2 * Unit, h |-> 2 * Unit],
     [x |-> 0, y |-> 1, w |-> 3 * Unit, h |-> 3 * Unit]}

\* Scissors in whole pixels, all with y + h <= 4.
Scissors ==
    {[x |-> 0, y |-> 0, w |-> 4, h |-> 4],
     [x |-> 1, y |-> 1, w |-> 2, h |-> 3]}

ViewStartRenderPass ==
    StartRenderPass(MaxViewportCmds, {NULL}, ViewColors, ViewDepths, ViewStencils,
                    ReallocOutcomes)
ViewSetRenderPassViewport ==
    SetRenderPassViewport(MaxViewportCmds, Viewports, ReallocOutcomes)
ViewSetRenderPassScissor ==
    SetRenderPassScissor(MaxViewportCmds, Scissors, ReallocOutcomes)
ViewEndRenderPass == EndRenderPass(MaxViewportCmds, ReallocOutcomes)
ViewSubmit == SubmitCommandBuffer(ReallocOutcomes, {})

NextViewport ==
    \/ ViewStartRenderPass
    \/ ViewSetRenderPassViewport
    \/ ViewSetRenderPassScissor
    \/ ViewEndRenderPass
    \/ ViewSubmit

SpecViewport == Init /\ [][NextViewport]_vars

\* The heights of the attachments of the pass that carry a texture.
BoundHeights ==
    {status.targets.ca[k].texture.height :
        k \in {j \in DOMAIN status.targets.ca : status.targets.ca[j].texture # NoTexture}}
    \cup {status.targets.da[k].texture.height : k \in DOMAIN status.targets.da}
    \cup {status.targets.sa[k].texture.height : k \in DOMAIN status.targets.sa}

\* H: the smallest of them.
MinHeight == CHOOSE m \in BoundHeights : \A o \in BoundHeights : m <= o

LastRecord == arena.cmd[Len(arena.cmd)].rec

\* C9: a viewport or scissor call with 0 <= y and y + h <= H that returned
\* 0 has recorded x, w and h as given and y as H - y - h, H being the
\* smallest height of the attachments with a texture; and a replay that
\* read the live arena has applied every recorded rectangle as recorded.
C9_FlippedRectangleApplied ==
    /\ (status.op = "SetRenderPassViewport" /\ status.ret = 0
            /\ status.args.y >= 0 /\ status.args.y + status.args.h <= MinHeight * Unit) =>
          /\ LastRecord.type = "CMD_SET_VIEWPORT"
          /\ LastRecord.x = status.args.x
          /\ LastRecord.y = MinHeight * Unit - status.args.y - status.args.h
          /\ LastRecord.w = status.args.w
          /\ LastRecord.h = status.args.h
    /\ (status.op = "SetRenderPassScissor" /\ status.ret = 0
            /\ status.args.y >= 0 /\ status.args.y + status.args.h <= MinHeight) =>
          /\ LastRecord.type = "CMD_SET_SCISSOR"
          /\ LastRecord.x = status.args.x
          /\ LastRecord.y = MinHeight - status.args.y - status.args.h
          /\ LastRecord.w = status.args.w
          /\ LastRecord.h = status.args.h
    /\ (Replayed /\ ~gl.stale_read) =>
          \A k \in DOMAIN gl.log :
             /\ gl.log[k].rec.type = "CMD_SET_VIEWPORT" =>
                   /\ gl.log[k].state.viewport.x * Unit = gl.log[k].rec.x
                   /\ gl.log[k].state.viewport.y * Unit = gl.log[k].rec.y
                   /\ gl.log[k].state.viewport.w * Unit = gl.log[k].rec.w
                   /\ gl.log[k].state.viewport.h * Unit = gl.log[k].rec.h
             /\ gl.log[k].rec.type = "CMD_SET_SCISSOR" =>
                   /\ gl.log[k].state.scissor.x = gl.log[k].rec.x
                   /\ gl.log[k].state.scissor.y = gl.log[k].rec.y
                   /\ gl.log[k].state.scissor.w = gl.log[k].rec.w
                   /\ gl.log[k].state.scissor.h = gl.log[k].rec.h

(***************************************************************************)
(* The backbuffer of a claimed window: the platform resizes the window and *)
(* queues events, the observer handles them on its thread, and the render  *)
(* thread calls GetBackbuffer; the steps of the two threads interleave.    *)
(***************************************************************************)
ResizeClaimWindow ==
    ClaimWindow({"SDL_PIXELFORMAT_ARGB8888"}, {"ok", "notexture"},
                {pf \in PlatformOutcomes : pf.recreate /\ pf.current /\ pf.restore})
ResizeWindow == WindowResize(WindowSizes)
ResizeRecreateRead == RecreateRead(WindowFormats)
ResizeRecreateFinish == RecreateFinish(TextureOutcomes)

NextResize ==
    \/ ResizeClaimWindow
    \/ ResizeWindow
    \/ OtherEvent
    \/ WindowEventWatch
    \/ GetBackbufferBegin
    \/ ResizeRecreateRead
    \/ ResizeRecreateFinish
    \/ GetBackbufferRetry

SpecResize == Init /\ [][NextResize]_vars

\* GetBackbuffer has returned.
Returns(ret) == rt.pc = "idle" /\ rt.op = "GetBackbuffer" /\ rt.ret = ret

\* C10: in every interleaving of the observer with GetBackbuffer,
\* (a) a signal the observer has set stays pending (the flag is 1, or the
\*     call that consumed it is about to start its attempt) until a
\*     recreation attempt starts;
\* (b) a call makes one attempt when its compare-and-swap found the flag
\*     set and none otherwise;
\* (c) a call whose attempt failed returns -1 with the flag at 1;
\* (d) when a call returns after a successful attempt and the window was
\*     not resized since the attempt read it, the backbuffer has the
\*     window's pixel size, and that is the size the call hands back.
C10_NoResizeSignalLost ==
    /\ win.signalled => (dev.window_size_changed = 1 \/ rt.pc = "recreate")
    /\ rt.attempts <= 1
    /\ (rt.op = "GetBackbuffer" /\ rt.pc \in {"idle", "create", "retry"}) =>
          rt.attempts = IF rt.swapped THEN 1 ELSE 0
    /\ Returns(-1) => (rt.swapped /\ dev.window_size_changed = 1)
    /\ (Returns(0) /\ rt.swapped /\ ~win.resized) =>
          /\ dev.w_backbuffer = win.w
          /\ dev.h_backbuffer = win.h
          /\ rt.texture.width = win.w
          /\ rt.texture.height = win.h

\* The window was resized and the observer set the flag after the attempt
\* of a call had read the old size; the attempt succeeded with the old
\* size, the call has returned, and the signal is still pending.
C10_Witness ==
    /\ Returns(0)
    /\ rt.swapped
    /\ win.signalled
    /\ win.resized
    /\ win.events = <<>>
    /\ dev.window_size_changed = 1
    /\ dev.w_backbuffer # win.w

\* The call that has just returned is a RecreateBackBufferTexture that
\* failed to create the texture or failed the completeness check.
RecreateFailed ==
    /\ \/ rt.pc = "retry"
       \/ rt.pc = "idle" /\ rt.op = "ClaimWindow" /\ rt.ret = -1
    /\ rt.cause \in {"Could not create back buffer texture: OpenGL error"}
                        \cup {FrameBufferError(st) : st \in IncompleteStatuses}

\* C11: the backbuffer framebuffer always holds the backbuffer texture, a
\* texture that exists, and no other texture of the device exists; a step
\* in which RecreateBackBufferTexture fails to create the new texture or
\* the new texture fails the completeness check leaves texture_backbuffer,
\* texture_backbuffer_format, w_backbuffer and h_backbuffer as they were,
\* the old texture existing and attached, and the new one deleted.
C11_OldTextureKept ==
    [][/\ dev'.texture_backbuffer # 0
       /\ dev'.attached = dev'.texture_backbuffer
       /\ dev'.textures = {dev'.texture_backbuffer}
       /\ (RecreateFailed' /\ rt.pc \in {"create", "idle"}) =>
             /\ dev'.texture_backbuffer = dev.texture_backbuffer
             /\ dev'.texture_backbuffer_format = dev.texture_backbuffer_format
             /\ dev'.w_backbuffer = dev.w_backbuffer
             /\ dev'.h_backbuffer = dev.h_backbuffer
             /\ dev'.textures = dev.textures]_vars

\* GetBackbuffer is about to return -1 because the new texture of a
\* resized window failed the completeness check.
C11_Witness ==
    /\ rt.pc = "retry"
    /\ rt.cause = FrameBufferError("GL_FRAMEBUFFER_UNSUPPORTED")
    /\ dev.w_backbuffer # win.w
    /\ dev.attached = dev.texture_backbuffer
    /\ dev.texture_backbuffer \in dev.textures

(***************************************************************************)
(* The life of a device: creation with each step that can fail,            *)
(* destruction, claiming a window with each platform outcome, presenting.  *)
(***************************************************************************)
MaxHidden == 2

SwapIntervals == {-1, 0, 1}

DevCreateDevice ==
    CreateDevice(MaxHidden, CreateSteps,
                 {"SDL_PIXELFORMAT_ARGB8888", "SDL_PIXELFORMAT_UNKNOWN"}, TextureOutcomes)
DevClaimWindow ==
    ClaimWindow({"SDL_PIXELFORMAT_ARGB8888", "SDL_PIXELFORMAT_UNKNOWN"}, TextureOutcomes,
                PlatformOutcomes)
DevPresent == Present(SwapIntervals)

InitDevice ==
    /\ arena = CreateCommandBuffer
    /\ heap = [next_addr |-> 2, live |-> {1}, freed |-> <<>>,
               label_next |-> 1, labels |-> {}, label_frees |-> <<>>,
               overrun |-> FALSE, wild |-> FALSE]
    /\ driverdata = 1
    /\ pass = [kind |-> "none", id |-> 0, driverdata |-> NULL, session |-> ZeroPassData]
    /\ status = [phase |-> "recording", op |-> "CreateCommandBuffer", ret |-> 0, err |-> "",
                 failed |-> FALSE, args |-> [x |-> 0, y |-> 0, w |-> 0, h |-> 0],
                 targets |-> [ca |-> <<>>, da |-> <<>>, sa |-> <<>>]]
    /\ gl = NewContext
    /\ dev = NoDevice
    /\ win = NoPlatform
    /\ rt = NoCall
    /\ rsrc = NoResources

NextDevice ==
    \/ DevCreateDevice
    \/ DestroyDevice
    \/ DevClaimWindow
    \/ DevPresent

SpecDevice == InitDevice /\ [][NextDevice]_vars

\* ClaimWindow has just returned -1 because SDL_RecreateWindow or
\* SDL_GL_MakeCurrent failed.
ClaimFailed ==
    /\ rt.op = "ClaimWindow"
    /\ rt.ret = -1
    /\ rt.cause \in {"SDL_RecreateWindow", "SDL_GL_MakeCurrent"}

\* C12 as the specification states it: a step in which ClaimWindow fails
\* because SDL_RecreateWindow or SDL_GL_MakeCurrent fails leaves the
\* device's window and dummy_window flag, the hidden window and the
\* window's flags as they were.
C12_FlagsAlwaysRestored ==
    [][ClaimFailed' =>
          /\ dev'.window = dev.window
          /\ dev'.dummy_window = dev.dummy_window
          /\ win'.hidden = win.hidden
          /\ win'.flags = win.flags]_vars

\* C12, amended: such a step leaves the device's window and dummy_window
\* flag and the hidden window as they were; the window's flags are as
\* they were unless SDL_RecreateWindow was called to put them back and
\* failed, and then they are the flags the first SDL_RecreateWindow set.
C12_ClaimFailureLeavesDevice ==
    [][ClaimFailed' =>
          /\ dev'.window = dev.window
          /\ dev'.dummy_window = dev.dummy_window
          /\ win'.hidden = win.hidden
          /\ rt'.restored # "failed" => win'.flags = win.flags
          /\ rt'.restored = "failed" =>
                /\ rt'.cause = "SDL_GL_MakeCurrent"
                /\ "SDL_WINDOW_OPENGL" \notin win.flags
                /\ win'.flags = (win.flags \ {"SDL_WINDOW_VULKAN", "SDL_WINDOW_METAL"})
                                    \cup {"SDL_WINDOW_OPENGL"}]_vars

\* ClaimWindow returned -1 because SDL_GL_MakeCurrent failed on a window
\* it had recreated, the flags are back, and the device still has its
\* hidden window.
C12_Witness ==
    /\ ClaimFailed
    /\ rt.cause = "SDL_GL_MakeCurrent"
    /\ rt.restored = "ok"
    /\ win.flags = {"SDL_WINDOW_VULKAN"}
    /\ dev.dummy_window
    /\ dev.window = "dummy_opengl_window"
    /\ win.hidden = 1

\* C13: when CreateDevice has returned -1, no hidden window, native
\* context, backbuffer framebuffer, backbuffer texture or driver data is
\* left.
C13_FailedCreateReleasesAll ==
    (rt.op = "CreateDevice" /\ rt.ret = -1) =>
       /\ win.hidden = 0
       /\ win.contexts = 0
       /\ gl.fbos = {}
       /\ dev.textures = {}
       /\ dev.driverdata = NULL

\* C14: a Present call requests a swap interval from the platform exactly
\* when its swapinterval differs from the stored one, the stored interval
\* is its swapinterval afterwards whether or not the platform took it, and
\* a call with the swapinterval of the Present before it requests nothing.
C14_SwapIntervalSticky ==
    [][rt'.tick # rt.tick =>
          /\ rt'.op = "Present"
          /\ (rt'.swap_calls # <<>>) <=> (rt'.swapinterval # dev.swap_interval)
          /\ \A k \in DOMAIN rt'.swap_calls : k = 1 => rt'.swap_calls[k] = rt'.swapinterval
          /\ dev'.swap_interval = rt'.swapinterval
          /\ (rt.op = "Present" /\ rt'.swapinterval = rt.swapinterval) =>
                rt'.swap_calls = <<>>]_vars

\* Present asked for an interval the platform rejected, and stored it.
C14_Witness ==
    /\ rt.op = "Present"
    /\ rt.swap_calls = <<1>>
    /\ ~rt.applied
    /\ dev.swap_interval = 1
    /\ win.interval = 0
(***************************************************************************)
(* Resources: every Create and Destroy on a created device, with           *)
(* descriptions at each limit of the device and one past it.               *)
(***************************************************************************)
BufferLengths == {1, MaxBufferSize, MaxBufferSize + 1}

\* A description with every size at its limit.
DescAtLimits ==
    [shader_usage |-> FALSE, pixel_format |-> "SDL_GPUPIXELFMT_RGBA8",
     texture_type |-> "SDL_GPUTEXTYPE_2D_ARRAY",
     width |-> GLLimits.max_texture_size, height |-> GLLimits.max_texture_size,
     depth_or_slices |-> GLLimits.max_texture_depth]

TextureDescs ==
    {DescAtLimits,
     [DescAtLimits EXCEPT !.width = @ + 1],
     [DescAtLimits EXCEPT !.height = @ + 1],
     [DescAtLimits EXCEPT !.depth_or_slices = @ + 1],
     [DescAtLimits EXCEPT !.shader_usage = TRUE],
     [DescAtLimits EXCEPT !.shader_usage = TRUE, !.width = @ + 1],
     [DescAtLimits EXCEPT !.pixel_format = "SDL_GPUPIXELFMT_BGRA8"],
     [DescAtLimits EXCEPT !.texture_type = "SDL_GPUTEXTYPE_1D", !.height = 1,
                          !.depth_or_slices = 1],
     [DescAtLimits EXCEPT !.texture_type = "SDL_GPUTEXTYPE_2D",
                          !.depth_or_slices = 1]}

AttributeCounts == {0, GLLimits.max_vertex_attrib, GLLimits.max_vertex_attrib + 1}

ResCreateCpuBuffer == CreateCpuBuffer(BufferLengths)
ResCreateBuffer == CreateBuffer(BufferLengths)
ResCreateTexture == CreateTexture(TextureDescs)
ResCreatePipeline == CreatePipeline(AttributeCounts, {FALSE})

\* Sources with the vertex marker, the fragment marker, no marker, the
\* first six characters of a marker, and a marker after a blank.
ShaderSources ==
    {VertMarker \o <<"\n", "v">>, FragMarker \o <<"m", "e", "n", "t">>,
     <<"#", "v", "e", "r", "s", "i", "o", "n">>,
     <<"/", "/", " ", "v", "e", "r">>,
     <<" ">> \o VertMarker}

ResCreateShader == CreateShader(ShaderSources, {FALSE})

NextResource ==
    \/ ResCreateCpuBuffer
    \/ DestroyCpuBuffer
    \/ ResCreateBuffer
    \/ DestroyBuffer
    \/ ResCreateTexture
    \/ DestroyTexture
    \/ ResCreateShader
    \/ DestroyShader
    \/ ResCreatePipeline
    \/ DestroyPipeline
    \/ CreateSampler
    \/ DestroySampler

SpecResource == Init /\ [][NextResource]_vars

DestroyOps ==
    {"DestroyCpuBuffer", "DestroyBuffer", "DestroyTexture", "DestroyShader",
     "DestroyPipeline", "DestroySampler"}

\* The stored handle of object obj is null.
NullHandle(r, obj) ==
    IF obj = "pipeline" THEN r.pipeline = [vao |-> 0, program |-> 0]
                        ELSE r[obj] = NULL

\* r without the account of the latest call.
Resources(r) == [r EXCEPT !.last = NoResources.last]

\* C15: for every kind of resource, a Destroy leaves the stored handle
\* null; a Destroy of a resource whose stored handle is null makes no native
\* delete call and changes nothing (so a second Destroy adds nothing to the
\* first); and no delete call ever names a native object that does not
\* exist, that is, no native handle is deleted twice.
C15_DestroyIdempotent ==
    [][(rsrc' # rsrc /\ rsrc'.last.op \in DestroyOps) =>
          /\ NullHandle(rsrc', rsrc'.last.obj)
          /\ ~rsrc'.stale_delete
          /\ NullHandle(rsrc, rsrc'.last.obj) =>
                /\ rsrc'.last.deleted = 0
                /\ Resources(rsrc') = Resources(rsrc)
          /\ ~NullHandle(rsrc, rsrc'.last.obj) => rsrc'.last.deleted > 0]_vars

\* A pipeline was destroyed whose handle was null already, while the shaders
\* it was made of still exist.
C15_Witness ==
    /\ rsrc.last.op = "DestroyPipeline"
    /\ rsrc.last.deleted = 0
    /\ rsrc.live["vao"] = {}
    /\ rsrc.live["shader"] # {}

CreateOps ==
    {"CreateCpuBuffer", "CreateBuffer", "CreateTexture", "CreatePipeline"}

\* The description of the latest call is beyond a limit of the device.
OverLimit ==
    LET a == rsrc.last.arg
    IN  \/ a.buflen > dev.max_buffer_size
        \/ a.width > dev.max_texture_size
        \/ a.height > dev.max_texture_size
        \/ a.depth_or_slices > dev.max_texture_depth
        \/ a.num_vertex_attributes > dev.max_vertex_attrib

LimitErrors ==
    {"Cpu buffer too large", "Gpu buffer too large", "texture too big",
     "too many vertex attribute"}

\* C16: a Create of a buffer, texture or pipeline whose description is
\* beyond a limit of the device fails, allocates no native object and stores
\* no handle; a description within or at the limits is not refused for its
\* size, and a buffer at the limit is created.
C16_LimitsCheckedFirst ==
    rsrc.last.op \in CreateOps =>
        /\ OverLimit =>
              /\ rsrc.last.ret = -1
              /\ rsrc.last.created = 0
              /\ NullHandle(rsrc, rsrc.last.obj)
        /\ ~OverLimit => rsrc.last.err \notin LimitErrors
        /\ (rsrc.last.op \in {"CreateCpuBuffer", "CreateBuffer"} /\ ~OverLimit) =>
              /\ rsrc.last.ret = 0
              /\ rsrc.last.created = 1
              /\ ~NullHandle(rsrc, rsrc.last.obj)

\* A buffer of exactly max_buffer_size bytes was created, while a texture
\* exists.
C16_Witness ==
    /\ rsrc.last.op = "CreateBuffer"
    /\ rsrc.last.arg.buflen = dev.max_buffer_size
    /\ rsrc.buffer # NULL
    /\ rsrc.texture # NULL

\* A texture one slice deeper than max_texture_depth was refused.
C16_WitnessOver ==
    /\ rsrc.last.op = "CreateTexture"
    /\ rsrc.last.arg.depth_or_slices > dev.max_texture_depth
    /\ rsrc.last.arg.width = dev.max_texture_size
    /\ rsrc.last.ret = -1

\* The completeness checks among the native calls, and the latest of them.
Checks ==
    {k \in 1 .. Len(gl.calls) : gl.calls[k][1] = "glCheckNamedFramebufferStatus"}

IncompleteCheck == gl.calls[CHOOSE k \in Checks : \A j \in Checks : j <= k]

\* The latest submission stopped at a StartRenderPass record whose
\* framebuffer was not complete.
FramebufferIncomplete ==
    /\ status.phase = "submitted"
    /\ Checks # {}
    /\ IncompleteCheck[3] \in IncompleteStatuses

\* The render pass records replayed before the one that failed, which is
\* the last of the replay log.
PassRecordsBefore ==
    {k \in 1 .. (Len(gl.log) - 1) :
        gl.log[k].rec.type \in {"CMD_START_RENDER_PASS", "CMD_END_RENDER_PASS"}}

\* Replay was inside a render pass when it met the failing record: the
\* EndRenderPass of an earlier pass could not be recorded.
OpenAtFailure ==
    /\ PassRecordsBefore # {}
    /\ gl.log[CHOOSE k \in PassRecordsBefore : \A j \in PassRecordsBefore : j <= k].rec.type
          = "CMD_START_RENDER_PASS"

\* C17: when the completeness check of the framebuffer of a render pass
\* fails at replay, that framebuffer is deleted, the framebuffer handle of
\* the replay state stays 0 (it was 0 unless replay was inside a pass, and
\* is never the deleted framebuffer), the device with its backbuffer
\* framebuffer and texture is as it was, and the error message is the one
\* of the completeness code, 'missing attachment' and 'unsupported' having
\* two different messages.
C17_IncompleteFramebufferReleased ==
    FramebufferIncomplete =>
        LET fbo == IncompleteCheck[2]
            code == IncompleteCheck[3]
        IN  /\ gl.calls[Len(gl.calls)] = <<"glDeleteFramebuffers", fbo>>
            /\ fbo \notin gl.fbos
            /\ arena.exec_state.fbo_glid # fbo
            /\ ~OpenAtFailure => arena.exec_state.fbo_glid = 0
            /\ dev = Created.dev
            /\ dev.fbo_backbuffer \in gl.fbos
            /\ dev.texture_backbuffer \in dev.textures
            /\ status.err = FrameBufferError(code)
            /\ status.err \notin {"", FrameBufferError("no such code")}
            /\ FrameBufferError("GL_FRAMEBUFFER_INCOMPLETE_MISSING_ATTACHMENT")
                   # FrameBufferError("GL_FRAMEBUFFER_UNSUPPORTED")

\* A pass was replayed to its end and the framebuffer of the next one
\* misses an attachment.
C17_Witness ==
    /\ FramebufferIncomplete
    /\ ~OpenAtFailure
    /\ arena.exec_state.fbo_glid = 0
    /\ IncompleteCheck[3] = "GL_FRAMEBUFFER_INCOMPLETE_MISSING_ATTACHMENT"
    /\ IncompleteCheck[2] > 2

\* C18: a submission whose replay of a StartRenderPass record failed, the
\* framebuffer not created or not complete, returns the failure value -1.
C18_FailedReplayReturnsFailure ==
    (status.phase = "submitted" /\ gl.fbo_failed) => status.ret = -1

(***************************************************************************)
(* Recording in which StartRenderPass is also called while a render pass   *)
(* is open.                                                                *)
(***************************************************************************)
NestStartRenderPass ==
    NestedStartRenderPass(MaxCmds, Labels, {ClearedTargets(4)}, {<<>>}, {<<>>},
                          ReallocOutcomes)

NextNesting ==
    \/ RecStartRenderPass
    \/ NestStartRenderPass
    \/ RecDraw
    \/ RecEndRenderPass
    \/ RecSubmit
    \/ AbandonCommandBuffer

SpecNesting == Init /\ [][NextNesting]_vars

RecordTypes == [k \in DOMAIN arena.cmd |-> arena.cmd[k].rec.type]

\* C19: at most one render pass is open for recording at any time: a
\* StartRenderPass called while a render pass of the command buffer is
\* started and not ended is rejected and records nothing; and a submission
\* is made only when no render pass is open.
C19_OnePassOpen ==
    [][/\ (/\ pass.kind = "render"
           /\ arena.encoding_state.current_render_pass # NULL
           /\ status'.op = "StartRenderPass"
           /\ <<status, heap, pass>>' # <<status, heap, pass>>) =>
              /\ arena'.cmd = arena.cmd
              /\ pass' = pass
              /\ status'.ret < 0
       /\ (status.phase = "recording" /\ status'.phase = "submitted") =>
              arena.encoding_state.current_render_pass = NULL]_vars

(***************************************************************************)
(* Blit passes that copy from a buffer to textures of every dimension.     *)
(***************************************************************************)
CopyTextures ==
    {[driverdata |-> 40,
      desc |-> [texture_type |-> t, pixel_format |-> "SDL_GPUPIXELFMT_RGBA8"]] :
        t \in {"SDL_GPUTEXTYPE_1D", "SDL_GPUTEXTYPE_2D", "SDL_GPUTEXTYPE_CUBE",
               "SDL_GPUTEXTYPE_2D_ARRAY", "SDL_GPUTEXTYPE_CUBE_ARRAY",
               "SDL_GPUTEXTYPE_3D"}}

CopyRegions ==
    {[srcoffset |-> 0, srcpitch |-> p, srcimgpitch |-> 2 * p,
      srcw |-> 2, srch |-> 2, srcdepth |-> 1,
      dstlevel |-> 0, dstx |-> 0, dsty |-> 1, dstz |-> 0] : p \in {6, 8}}

CopyStartBlitPass == StartBlitPass(MaxCmds, {NULL}, {"inplace"})
CopyCopyFromBufferToTexture ==
    CopyFromBufferToTexture(MaxCmds, {30}, CopyTextures, CopyRegions, {"inplace", "fail"})
CopyEndBlitPass == EndBlitPass(MaxCmds, {"inplace"})
CopySubmit == SubmitCommandBuffer({"inplace"}, {"nofbo"})

NextCopy ==
    \/ CopyStartBlitPass
    \/ CopyCopyFromBufferToTexture
    \/ CopyEndBlitPass
    \/ CopySubmit
    \/ AbandonCommandBuffer

SpecCopy == Init /\ [][NextCopy]_vars

\* The native calls of name.
CallsOf(name) == {k \in DOMAIN gl.calls : gl.calls[k][1] = name}

\* C20: CopyFromBufferToTexture to a texture of dimensionality 3 fails as
\* unsupported, so that no record of such a copy is ever in the command
\* buffer to be passed over at replay; a copy to a texture of dimensionality
\* 1 or 2 that returns 0 is recorded, and is executed by a submission that
\* replays the whole buffer.
C20_Copy3DUnsupported ==
    /\ Count(RecordTypes, "CMD_COPY_BUFFER_TO_TEXTURE_3D") = 0
    /\ (status.op = "CopyFromBufferToTexture" /\ status.ret = 0) =>
          LastRecord.type \in {"CMD_COPY_BUFFER_TO_TEXTURE_1D",
                               "CMD_COPY_BUFFER_TO_TEXTURE_2D"}
    /\ Replayed =>
          /\ Cardinality(CallsOf("glTextureSubImage1D"))
                = Count(RecordTypes, "CMD_COPY_BUFFER_TO_TEXTURE_1D")
          /\ Cardinality(CallsOf("glTextureSubImage2D"))
                >= Count(RecordTypes, "CMD_COPY_BUFFER_TO_TEXTURE_2D")

(***************************************************************************)
(* Recording with the calls the driver does not implement.                 *)
(***************************************************************************)
UnsStartRenderPass ==
    StartRenderPass(MaxCmds, {NULL}, {ClearedTargets(4)}, {<<>>}, {<<>>}, {"inplace"})
UnsDraw == Draw(MaxCmds, {[vertex_start |-> 0, vertex_count |-> 3]}, {"inplace"})
UnsEndRenderPass == EndRenderPass(MaxCmds, {"inplace"})
UnsStartBlitPass == StartBlitPass(MaxCmds, {NULL}, {"inplace"})
UnsCopyBuffer ==
    CopyBuffer(MaxCmds, {[srcbuf |-> 30, srcoffset |-> 0, dstbuf |-> 31, dstoffset |-> 0,
                          length |-> 8]}, {"inplace", "fail"})
UnsEndBlitPass == EndBlitPass(MaxCmds, {"inplace"})
UnsSubmit == SubmitCommandBuffer({"inplace"}, {"nofbo"})

NextUnsupported ==
    \/ UnsStartRenderPass
    \/ UnsDraw
    \/ DrawInstanced
    \/ DrawInstancedIndexed
    \/ UnsEndRenderPass
    \/ UnsStartBlitPass
    \/ UnsCopyBuffer
    \/ CopyFromTextureToBuffer
    \/ UnsEndBlitPass
    \/ UnsSubmit
    \/ AbandonCommandBuffer

SpecUnsupported == Init /\ [][NextUnsupported]_vars

\* C21: DrawInstanced and DrawInstancedIndexed return the failure of an
\* unsupported operation, not success, and leave the command buffer, its
\* n_cmd and its records, as it was.
C21_InstancedDrawUnsupported ==
    [][(status'.op \in {"DrawInstanced", "DrawInstancedIndexed"} /\ status' # status) =>
          /\ status'.ret = SDL_Unsupported.ret
          /\ status'.err = SDL_Unsupported.err
          /\ arena' = arena]_vars

\* C22: CopyFromTextureToBuffer always returns the failure of an unsupported
\* operation and appends nothing to the command buffer, n_cmd and records
\* unchanged; no record of a texture to buffer copy is ever in the buffer,
\* so that replay makes no native call for one.
C22_TextureToBufferUnsupported ==
    [][/\ (status'.op = "CopyFromTextureToBuffer" /\ status' # status) =>
              /\ status'.ret = -1
              /\ status'.err = "That operation is not supported"
              /\ arena' = arena
              /\ gl' = gl
       /\ \A k \in DOMAIN arena'.cmd :
              arena'.cmd[k].rec.type \notin {"CMD_COPY_TEXTURE_TO_BUFFER_1D",
                                             "CMD_COPY_TEXTURE_TO_BUFFER_2D",
                                             "CMD_COPY_TEXTURE_TO_BUFFER_3D"}]_vars

\* A texture to buffer copy was refused in a blit pass that holds a buffer
\* copy, after a buffer copy that could not be recorded.
C22_Witness ==
    /\ status.op = "CopyFromTextureToBuffer"
    /\ status.ret = -1
    /\ status.err = "That operation is not supported"
    /\ status.failed
    /\ pass.kind = "blit"
    /\ Len(arena.cmd) >= 2

\* The first seven characters of the source of the latest call are marker.
StartsWith(marker) ==
    /\ Len(rsrc.last.src) >= 7
    /\ SubSeq(rsrc.last.src, 1, 7) = marker

CompileErrors ==
    {"could not create shader: OpenGL error",
     "vertex shader compilation failed: OpenGL error"}

\* C23: CreateShader of a source that starts with "// vert" compiles a
\* vertex shader and of one that starts with "// frag" a fragment shader;
\* of a source with neither marker it fails with an error of its own, which
\* is not the one of a failed compilation, creates no native shader and
\* stores no handle.
C23_ShaderStageFromMarker ==
    rsrc.last.op = "CreateShader" =>
        /\ StartsWith(VertMarker) => rsrc.last.stage = "GL_VERTEX_SHADER"
        /\ StartsWith(FragMarker) => rsrc.last.stage = "GL_FRAGMENT_SHADER"
        /\ (~StartsWith(VertMarker) /\ ~StartsWith(FragMarker)) =>
              /\ rsrc.last.ret = -1
              /\ rsrc.last.created = 0
              /\ NullHandle(rsrc, rsrc.last.obj)
              /\ rsrc.last.err \notin {""} \cup CompileErrors

(***************************************************************************)
(* Render passes over every load action.  Clear values are whole floats;   *)
(* "SDL_GPUPASSINIT_LOAD" is the load action that is neither CLEAR nor     *)
(* UNDEFINED, the one that preserves the contents.                         *)
(***************************************************************************)
MaxLoadCmds == 2

PassInits == {"SDL_GPUPASSINIT_CLEAR", "SDL_GPUPASSINIT_UNDEFINED", "SDL_GPUPASSINIT_LOAD"}

\* The attachments of one slot: cleared to red -1, 0 or 1, undefined,
\* preserved, or without texture.
LoadSlots ==
    {ColorAttachment(Texture(11, 4), "SDL_GPUPASSINIT_CLEAR", red) : red \in {-1, 0, 1}}
    \cup {ColorAttachment(Texture(11, 4), init, 0) :
            init \in {"SDL_GPUPASSINIT_UNDEFINED", "SDL_GPUPASSINIT_LOAD"}}
    \cup {ColorAttachment(NoTexture, "SDL_GPUPASSINIT_CLEAR", 0)}

LoadColors == [1 .. MaxSlots -> LoadSlots]

LoadDepths ==
    {<<>>}
    \cup {<<[texture |-> Texture(12, 4), depth_init |-> init, clear_depth |-> 1]>> :
            init \in PassInits}

LoadStencils ==
    {<<>>}
    \cup {<<[texture |-> Texture(13, 4), stencil_init |-> init, clear_stencil |-> 7]>> :
            init \in PassInits}

LoadStartRenderPass ==
    StartRenderPass(MaxLoadCmds, {NULL}, LoadColors, LoadDepths, LoadStencils, {"inplace"})
LoadEndRenderPass == EndRenderPass(MaxLoadCmds + 1, {"inplace"})
LoadSubmit == SubmitCommandBuffer({"inplace"}, {"nofbo"})

NextLoad ==
    \/ LoadStartRenderPass
    \/ LoadEndRenderPass
    \/ LoadSubmit
    \/ AbandonCommandBuffer

SpecLoad == Init /\ [][NextLoad]_vars

\* A submission replayed one render pass, the one of the latest
\* StartRenderPass.
OnePassReplayed == Replayed /\ Count(RecordTypes, "CMD_START_RENDER_PASS") = 1

\* The native calls that clear buffer, draw buffer i.
Clears(buffer, i) ==
    {k \in CallsOf("glClearNamedFramebufferfv") \cup CallsOf("glClearNamedFramebufferiv") :
        gl.calls[k][3] = buffer /\ gl.calls[k][4] = i}

\* The attachments listed by the invalidation calls.
Invalidated ==
    UNION {{gl.calls[k][4][j] : j \in DOMAIN gl.calls[k][4]} :
             k \in CallsOf("glInvalidateNamedFramebufferData")}

\* The load actions 'undefined' among the attachments of the pass.
UndefinedTargets ==
    LET t == status.targets
    IN  {<<"GL_COLOR_ATTACHMENT", i>> :
            i \in {j \in 0 .. (Len(t.ca) - 1) :
                     /\ t.ca[j + 1].texture # NoTexture
                     /\ t.ca[j + 1].color_init = "SDL_GPUPASSINIT_UNDEFINED"}}
        \cup {<<"GL_DEPTH_ATTACHMENT">> :
                k \in {j \in DOMAIN t.da : t.da[j].depth_init = "SDL_GPUPASSINIT_UNDEFINED"}}
        \cup {<<"GL_STENCIL_ATTACHMENT">> :
                k \in {j \in DOMAIN t.sa : t.sa[j].stencil_init = "SDL_GPUPASSINIT_UNDEFINED"}}

\* C24: at the start of a render pass every colour attachment with a
\* texture, and the depth attachment, is cleared, once and with the value
\* given, exactly when its load action is CLEAR, and is listed for
\* invalidation exactly when its load action is UNDEFINED; the pass makes
\* one invalidation call when some attachment is UNDEFINED and none
\* otherwise, and the attachments listed are never more than the colour
\* attachments plus two.
C24_LoadActionsApplied ==
    OnePassReplayed =>
        LET t == status.targets
        IN  /\ \A i \in 0 .. (Len(t.ca) - 1) :
                  t.ca[i + 1].texture # NoTexture =>
                     IF t.ca[i + 1].color_init = "SDL_GPUPASSINIT_CLEAR"
                     THEN /\ Cardinality(Clears("GL_COLOR", i)) = 1
                          /\ \A k \in Clears("GL_COLOR", i) :
                                gl.calls[k][5] = t.ca[i + 1].clear_red
                     ELSE Clears("GL_COLOR", i) = {}
            /\ \A k \in DOMAIN t.da :
                  IF t.da[k].depth_init = "SDL_GPUPASSINIT_CLEAR"
                  THEN /\ Cardinality(Clears("GL_DEPTH", 0)) = 1
                       /\ \A c \in Clears("GL_DEPTH", 0) : gl.calls[c][5] = t.da[k].clear_depth
                  ELSE Clears("GL_DEPTH", 0) = {}
            /\ Invalidated = UndefinedTargets
            /\ Cardinality(CallsOf("glInvalidateNamedFramebufferData"))
                  = IF UndefinedTargets = {} THEN 0 ELSE 1
            /\ \A k \in CallsOf("glInvalidateNamedFramebufferData") :
                  /\ gl.calls[k][3] = Len(gl.calls[k][4])
                  /\ gl.calls[k][3] <= Len(t.ca) + 2

\* C25: at the start of a render pass with a stencil attachment the stencil
\* buffer is cleared, to the value given, exactly when the stencil load
\* action is CLEAR.
C25_StencilClearedOnlyOnClear ==
    OnePassReplayed =>
        \A k \in DOMAIN status.targets.sa :
            IF status.targets.sa[k].stencil_init = "SDL_GPUPASSINIT_CLEAR"
            THEN /\ Cardinality(Clears("GL_STENCIL", 0)) = 1
                 /\ \A c \in Clears("GL_STENCIL", 0) :
                       gl.calls[c][5] = status.targets.sa[k].clear_stencil
            ELSE Clears("GL_STENCIL", 0) = {}

(***************************************************************************)
(* Debug groups: labelled and unlabelled render passes in which labelled   *)
(* and unlabelled pipelines are bound, then submission.                    *)
(***************************************************************************)
\* Commands one command buffer of this specification can hold.
MaxGroupCmds == 4

GroupPipelines ==
    {Pipeline(1, NULL, Opaque, "SDL_GPUCULLFACE_NONE", "SDL_GPUFRONTFACE_CLOCKWISE"),
     Pipeline(2, 1, Opaque, "SDL_GPUCULLFACE_NONE", "SDL_GPUFRONTFACE_CLOCKWISE")}

GroupStartRenderPass ==
    StartRenderPass(MaxGroupCmds, Labels, {ClearedTargets(4)}, {<<>>}, {<<>>},
                    ReallocOutcomes)
GroupSetRenderPassPipeline ==
    SetRenderPassPipeline(MaxGroupCmds, GroupPipelines, ReallocOutcomes)
GroupEndRenderPass == EndRenderPass(MaxGroupCmds, ReallocOutcomes)
GroupSubmit == SubmitCommandBuffer(ReallocOutcomes, {})

NextGroup ==
    \/ GroupStartRenderPass
    \/ GroupSetRenderPassPipeline
    \/ GroupEndRenderPass
    \/ GroupSubmit

SpecGroup == Init /\ [][NextGroup]_vars

PipelineGroup(msg) == msg[1] = "Pipeline: "
PassGroup(msg) == msg[1] = "Start Render Pass: "

\* The debug groups open after entry k of the replay log.
GroupsAfter(k) == IF k < Len(gl.log) THEN gl.log[k + 1].groups ELSE gl.groups

\* The calls replaying an EndRenderPass makes when the groups in open are
\* open and the pass draws to fbo: the pipeline's group is closed first.
EndCalls(open, fbo) ==
    LET n == Len(open)
        pipeline == n > 0 /\ PipelineGroup(open[n])
        m == IF pipeline THEN n - 1 ELSE n
        labelled == m > 0 /\ PassGroup(open[m])
    IN  (IF pipeline THEN <<(<<"glPopDebugGroup">>)>> ELSE <<>>)
        \o <<(<<"glDeleteFramebuffers", fbo>>)>>
        \o (IF labelled THEN <<(<<"glPopDebugGroup">>)>> ELSE <<>>)

\* C26: replaying EndRenderPass closes the pipeline's debug group, if one is
\* open, before the pass's, if one is open, deletes the framebuffer of the
\* pass and leaves the replay state reset (framebuffer 0, no colour
\* attachment, nothing left to pop); replaying SetPipeline closes the group
\* of the pipeline bound before, so that no more than one pipeline group is
\* ever open.
C26_GroupsClosedInOrder ==
    \A k \in DOMAIN gl.log :
       LET e == gl.log[k]
       IN  /\ Len(SelectSeq(GroupsAfter(k), PipelineGroup)) <= 1
           /\ e.rec.type = "CMD_SET_PIPELINE" =>
                 /\ (e.groups # <<>> /\ PipelineGroup(e.groups[Len(e.groups)])) =>
                       e.calls[1] = <<"glPopDebugGroup">>
                 /\ e.rec.pipeline_label # NULL <=>
                       (GroupsAfter(k) # <<>>
                        /\ GroupsAfter(k)[Len(GroupsAfter(k))]
                              = <<"Pipeline: ", e.rec.pipeline_label>>)
           /\ e.rec.type = "CMD_END_RENDER_PASS" =>
                 /\ k > 1
                 /\ gl.log[k - 1].es.fbo_glid # 0
                 /\ e.calls = EndCalls(e.groups, gl.log[k - 1].es.fbo_glid)
                 /\ gl.log[k - 1].es.fbo_glid \notin gl.fbos
                 /\ ~\E j \in DOMAIN GroupsAfter(k) :
                        PipelineGroup(GroupsAfter(k)[j]) \/ PassGroup(GroupsAfter(k)[j])
                 /\ e.es.fbo_glid = 0
                 /\ e.es.n_color_attachment = 0
                 /\ ~e.es.pop_pipeline_label
                 /\ ~e.es.pop_pass_label

\* A labelled pass in which a labelled pipeline replaced a labelled one has
\* been replayed to its end.
C26_Witness ==
    \E i, k \in DOMAIN gl.log :
       /\ i < k
       /\ gl.log[i].rec.type = "CMD_SET_PIPELINE"
       /\ gl.log[i].rec.pipeline_label # NULL
       /\ gl.log[i].groups # <<>>
       /\ PipelineGroup(gl.log[i].groups[Len(gl.log[i].groups)])
       /\ gl.log[k].rec.type = "CMD_END_RENDER_PASS"
       /\ Len(gl.log[k].groups) = 2

(***************************************************************************)
(* Mesh buffers and draws: render passes, one after the other in one       *)
(* command buffer, in which pipelines of different topology and stride     *)
(* are bound, vertex buffers set and draws issued.                         *)
(***************************************************************************)
\* Commands one command buffer of this specification can hold.
MaxMeshCmds == 5

MeshPipelines ==
    {Pipeline(1, NULL, Opaque, "SDL_GPUCULLFACE_NONE", "SDL_GPUFRONTFACE_CLOCKWISE"),
     [Pipeline(2, NULL, Opaque, "SDL_GPUCULLFACE_NONE", "SDL_GPUFRONTFACE_CLOCKWISE")
        EXCEPT !.desc.primitive = "SDL_GPUPRIM_LINE",
               !.desc.vertices = <<[stride |-> 8]>>]}

VertexBuffer == [driverdata |-> 31, buflen |-> 64]

\* The binding indexes a caller passes.
MeshIndexes == {0, 1}

MeshStartRenderPass ==
    StartRenderPass(MaxMeshCmds, {NULL}, {ClearedTargets(4)}, {<<>>}, {<<>>}, {"inplace"})
MeshSetRenderPassPipeline == SetRenderPassPipeline(MaxMeshCmds, MeshPipelines, {"inplace"})
MeshSetMeshBuffer == SetMeshBuffer(MaxMeshCmds, {VertexBuffer}, {0}, MeshIndexes, {"inplace"})
MeshDraw == Draw(MaxMeshCmds, {[vertex_start |-> 0, vertex_count |-> 3]}, {"inplace"})
MeshDrawIndexed ==
    DrawIndexed(MaxMeshCmds, {[index_buffer |-> IndexBuffer, index_count |-> 3,
                               index_type |-> "SDL_GPUINDEXTYPE_UINT16",
                               index_offset |-> 0]}, {"inplace"})
MeshEndRenderPass == EndRenderPass(MaxMeshCmds, {"inplace"})
MeshSubmit == SubmitCommandBuffer({"inplace"}, {})

NextMesh ==
    \/ MeshStartRenderPass
    \/ MeshSetRenderPassPipeline
    \/ MeshSetMeshBuffer
    \/ MeshDraw
    \/ MeshDrawIndexed
    \/ MeshEndRenderPass
    \/ MeshSubmit

SpecMesh == Init /\ [][NextMesh]_vars

\* The SetPipeline records that precede record k in the render pass of k.
PipelinesBefore(k) ==
    {j \in 1 .. (k - 1) :
        /\ arena.cmd[j].rec.type = "CMD_SET_PIPELINE"
        /\ \A i \in j .. k : arena.cmd[i].rec.type # "CMD_START_RENDER_PASS"}

\* The pipeline the latest of these records binds.
PipelineBefore(k) ==
    LET j == CHOOSE j \in PipelinesBefore(k) : \A i \in PipelinesBefore(k) : i <= j
    IN  CHOOSE p \in MeshPipelines : p.driverdata.vao = arena.cmd[j].rec.vao

\* C27: every Draw and DrawIndexed record has the topology, and every
\* SetMeshBuffer record the stride of vertex attribute 0, of the pipeline
\* bound last in the same render pass; there is no SetMeshBuffer record in
\* a pass before a pipeline is bound in that pass, because the call stops at
\* the assertion on the stride.
C27_PassStateFromOwnPipeline ==
    \A k \in DOMAIN arena.cmd :
       LET rec == arena.cmd[k].rec
       IN  /\ (rec.type \in {"CMD_DRAW", "CMD_DRAW_INDEXED"} /\ PipelinesBefore(k) # {}) =>
                 rec.mode = ToGLPrimitive(PipelineBefore(k).desc.primitive)
           /\ rec.type = "CMD_SET_MESH" =>
                 /\ PipelinesBefore(k) # {}
                 /\ rec.stride = PipelineBefore(k).desc.vertices[1].stride

\* C28: the replay of a SetMeshBuffer record binds the vertex buffer at
\* native binding point 0, whatever index the caller passed.
C28_MeshBoundAtPointZero ==
    \A k \in DOMAIN gl.log :
       gl.log[k].rec.type = "CMD_SET_MESH" =>
          gl.log[k].calls = <<(<<"glBindVertexBuffer", 0, gl.log[k].rec.buffer,
                                 gl.log[k].rec.offset, gl.log[k].rec.stride>>)>>

(***************************************************************************)
(* Uploads: one blit pass with copies from a buffer to a 2D texture, of    *)
(* several widths, heights, pitches and pixel sizes, then submission.      *)
(***************************************************************************)
\* Commands one command buffer of this specification can hold.
MaxUploadCmds == 3
\* Largest width and height, in pixels, of a copied region.
MaxWidth == 2
MaxHeight == 3

UploadTextures ==
    {[driverdata |-> 40, desc |-> [texture_type |-> "SDL_GPUTEXTYPE_2D", pixel_format |-> f]] :
        f \in {"SDL_GPUPIXELFMT_RGBA8", "SDL_GPUPIXELFMT_B5G6R5"}}

\* Pitches that are and are not multiples of 4, with and without padding
\* after the pixels of a row.
UploadPitches == {4, 6, 8, 10, 12}

UploadRegions ==
    {[srcoffset |-> o, srcpitch |-> p, srcimgpitch |-> MaxHeight * p,
      srcw |-> w, srch |-> h, srcdepth |-> 1,
      dstlevel |-> 0, dstx |-> 0, dsty |-> 1, dstz |-> 0] :
        o \in {0, 16}, p \in UploadPitches, w \in 1 .. MaxWidth, h \in 1 .. MaxHeight}

UploadStartBlitPass == StartBlitPass(MaxUploadCmds, {NULL}, {"inplace"})
UploadCopyFromBufferToTexture ==
    CopyFromBufferToTexture(MaxUploadCmds, {30}, UploadTextures, UploadRegions, {"inplace"})
UploadEndBlitPass == EndBlitPass(MaxUploadCmds, {"inplace"})
UploadSubmit == SubmitCommandBuffer({"inplace"}, {})

NextUpload ==
    \/ UploadStartBlitPass
    \/ UploadCopyFromBufferToTexture
    \/ UploadEndBlitPass
    \/ UploadSubmit

SpecUpload == Init /\ [][NextUpload]_vars

\* C29: the replay of a 2D copy of h rows writes each row dst_y + i of the
\* texture, 0 <= i < h, exactly once, from the bytes at src_offset +
\* i * src_pitch of the buffer, whether the pitch is a multiple of 4 (one
\* native call) or not (h calls).
C29_RowsReadAtPitch ==
    \A k \in DOMAIN gl.log :
       LET cmd == gl.log[k].rec
           rows == gl.log[k].uploads
       IN  cmd.type = "CMD_COPY_BUFFER_TO_TEXTURE_2D" =>
              /\ Len(rows) = cmd.dst_h
              /\ \A i \in 0 .. (cmd.dst_h - 1) :
                    \E j \in DOMAIN rows :
                       /\ rows[j].texture = cmd.texture
                       /\ rows[j].row = cmd.dst_y + i
                       /\ rows[j].from = cmd.src_offset + i * cmd.src_pitch

\* The bytes the recorder appended for record j: up to the next record.
Appended(j) == arena.cmd[j + 1].off - arena.cmd[j].off

\* The tags from CMD_NONE up to, and without, CMD_COUNT.
ValidTags == {GLCMD_TYPE[t] : t \in 1 .. (Len(GLCMD_TYPE) - 1)}

\* C30: a submission reads its first tag at offset 0 and each next one as
\* many bytes further as the recorder appended for the command just
\* replayed; every tag is read at the first byte of a record, is a valid
\* tag and lies within the n_cmd bytes recorded; and replay, unless a
\* render pass could not start, ends when it reads the sentinel, after
\* every record before it.
C30_CursorFollowsRecords ==
    status.phase = "submitted" =>
       /\ arena.cmd[Len(arena.cmd)].rec.type = "CMD_NONE"
       /\ Len(gl.log) <= Len(arena.cmd) - 1
       /\ \A k \in DOMAIN gl.log :
             /\ gl.log[k].off = arena.cmd[k].off
             /\ gl.log[k].rec = arena.cmd[k].rec
             /\ gl.log[k].off = IF k = 1 THEN 0 ELSE gl.log[k - 1].off + Appended(k - 1)
             /\ gl.log[k].rec.type \in ValidTags
             /\ gl.log[k].off <= arena.n_cmd
       /\ ~gl.fbo_failed => Len(gl.log) = Len(arena.cmd) - 1

(***************************************************************************)
(* Long command buffers: one render pass in which pipelines are bound      *)
(* until the arena cannot double any more, then submission or abandon.     *)
(***************************************************************************)
\* Commands one command buffer of this specification can hold.
MaxLongCmds == 17

LongStartRenderPass ==
    StartRenderPass(MaxLongCmds, {NULL}, {ClearedTargets(4)}, {<<>>}, {<<>>},
                    {"inplace"})
LongPipelines ==
    {Pipeline(1, NULL, Opaque, "SDL_GPUCULLFACE_NONE", "SDL_GPUFRONTFACE_CLOCKWISE")}
LongSetRenderPassPipeline ==
    SetRenderPassPipeline(MaxLongCmds, LongPipelines, {"inplace", "fail"})
LongEndRenderPass == EndRenderPass(MaxLongCmds, {"inplace", "fail"})
LongSubmit == SubmitCommandBuffer({"inplace"}, {})

NextLong ==
    \/ LongStartRenderPass
    \/ LongSetRenderPassPipeline
    \/ LongEndRenderPass
    \/ LongSubmit
    \/ AbandonCommandBuffer

SpecLong == Init /\ [][NextLong]_vars

\* An append of size words to the arena as it is overflows a size.
Overflows(size) ==
    \/ arena.n_cmd + size > SizeMax
    \/ /\ arena.n_cmd + size > arena.capacity_cmd
       /\ \/ arena.capacity_cmd * 2 > SizeMax
          \/ arena.capacity_cmd * 2 + HeaderSize > SizeMax

\* The size of the record each recording call of this specification appends.
SizeAppendedBy(op) ==
    CASE op = "StartRenderPass"       -> SizeOfCmd("CMD_START_RENDER_PASS")
      [] op = "SetRenderPassPipeline" -> SizeOfCmd("CMD_SET_PIPELINE")
      [] op = "EndRenderPass"         -> SizeOfCmd("CMD_END_RENDER_PASS")
      [] OTHER                        -> SizeOfCmd("CMD_NONE")

\* A recording call or the sentinel append of a submission has just failed.
AppendFailed ==
    /\ status'.ret < 0
    /\ status'.op \in {"StartRenderPass", "SetRenderPassPipeline", "EndRenderPass",
                       "SubmitCommandBuffer"}

C38_FailedAppendKeepsArena ==
    [][/\ AppendFailed =>
             /\ arena'.n_cmd = arena.n_cmd
             /\ arena'.capacity_cmd = arena.capacity_cmd
             /\ arena'.cmd = arena.cmd
             /\ driverdata' = driverdata
             /\ heap'.live = heap.live
             /\ heap'.freed = heap.freed
       /\ (status.failed /\ status'.phase = "submitted") =>
             /\ Len(gl'.log) = Len(arena.cmd)
             /\ \A k \in DOMAIN arena.cmd : gl'.log[k].rec = arena.cmd[k].rec
             /\ heap'.freed = Append(heap.freed, driverdata)
       /\ (status.failed /\ status'.phase = "abandoned") =>
             /\ gl' = gl
             /\ heap'.freed = Append(heap.freed, driverdata)
             /\ heap'.live = {}]_vars

\* A command buffer in which an append failed, and which is full up to
\* where the arena cannot double any more, has been submitted and every
\* record of it replayed.
C38_Witness ==
    /\ status.phase = "submitted"
    /\ status.failed
    /\ arena.capacity_cmd * 2 > SizeMax
    /\ arena.n_cmd + SizeOfCmd("CMD_SET_PIPELINE") > arena.capacity_cmd
    /\ Len(gl.log) = Len(arena.cmd) - 1

\* C39: from the initial capacity on, and through every growth up to the
\* last one the size type allows, the records written end within the
\* capacity: n_cmd <= capacity_cmd, every record lies inside the arena and
\* no append has written past its end.  The same holds in the other
\* specifications, which append the records of the other sizes.
C39_RecordsWithinCapacity ==
    /\ arena.n_cmd <= arena.capacity_cmd
    /\ arena.capacity_cmd <= SizeMax
    /\ \A k \in DOMAIN arena.cmd :
          arena.cmd[k].off + arena.cmd[k].size <= arena.capacity_cmd
    /\ ~heap.overrun

\* The arena has grown as far as it can and the last pipeline binding that
\* fits has been appended.
C39_Witness ==
    /\ status.op = "SetRenderPassPipeline"
    /\ status.ret = 0
    /\ arena.capacity_cmd * 2 > SizeMax
    /\ arena.capacity_cmd > 8 * InitialCapacity
    /\ arena.n_cmd + SizeOfCmd("CMD_SET_PIPELINE") > arena.capacity_cmd

(***************************************************************************)
(* Failed creation.                                                        *)
(***************************************************************************)
FailingCreateOps == {"CreateTexture", "CreateShader", "CreatePipeline", "CreateSampler"}

\* C32: a CreateTexture, CreateShader, CreatePipeline or CreateSampler that
\* fails returns -1, leaves alive exactly the native objects that were alive
\* before the call (whatever it allocated it deleted again, and it deleted
\* nothing else), and leaves the handle of its object null.
C32_FailedCreateLeavesNothing ==
    [][(rsrc'.last.op \in FailingCreateOps /\ rsrc'.last.ret # 0) =>
          /\ rsrc'.last.ret = -1
          /\ rsrc'.live = rsrc.live
          /\ rsrc'.last.deleted = rsrc'.last.created
          /\ rsrc'.stale_delete = rsrc.stale_delete
          /\ NullHandle(rsrc', rsrc'.last.obj)]_vars

\* A CreatePipeline failed after it had created its vertex array and its
\* program and deleted both, while other native objects exist.
C32_Witness ==
    /\ rsrc.last.op = "CreatePipeline"
    /\ rsrc.last.ret = -1
    /\ rsrc.last.err = "shader program valiation failed: OpenGL error"
    /\ rsrc.last.created = 2
    /\ rsrc.last.deleted = 2
    /\ rsrc.live["vao"] = {}
    /\ rsrc.live["program"] = {}
    /\ rsrc.live["shader"] # {}
    /\ rsrc.pipeline = [vao |-> 0, program |-> 0]

(***************************************************************************)
(* Framebuffer objects of a replay.                                        *)
(***************************************************************************)
\* C33: when SubmitCommandBuffer has returned, the framebuffer objects that
\* exist are those that existed before it: the one of the backbuffer.  Each
\* framebuffer object a replayed StartRenderPass created has been deleted.
C33_ReplayFramebuffersDeleted ==
    status.phase = "submitted" => gl.fbos = {dev.fbo_backbuffer}

(***************************************************************************)
(* Debug groups of the calls that create resources: shaders and pipelines  *)
(* with and without a label.                                               *)
(***************************************************************************)
LabelSources == {VertMarker \o <<"\n", "v">>, FragMarker, <<"#", "v", "e", "r", "s", "i", "o", "n">>}

LabelCreateShader == CreateShader(LabelSources, BOOLEAN)
LabelCreatePipeline == CreatePipeline(AttributeCounts, BOOLEAN)

NextLabel ==
    \/ LabelCreateShader
    \/ DestroyShader
    \/ LabelCreatePipeline
    \/ DestroyPipeline

SpecLabel == Init /\ [][NextLabel]_vars

\* C34: a CreateShader or CreatePipeline returns after as many
\* glPopDebugGroup calls as PushDebugGroup calls, so that the debug group
\* stack has the depth it had on entry, on success and on failure, for an
\* object with a label and for one without.
C34_DebugGroupsBalanced ==
    rsrc.last.op \in {"CreateShader", "CreatePipeline"} =>
        rsrc.last.pops = rsrc.last.pushes

(***************************************************************************)
(* A ClaimWindow that fails for any reason.                                *)
(***************************************************************************)
\* C35: a step in which ClaimWindow returns -1, whatever made it fail, the
\* failure of RecreateBackBufferTexture for the new window included, leaves
\* the device's window and dummy_window flag and the hidden window as they
\* were.
C35_AnyClaimFailureLeavesDevice ==
    [][(rt'.op = "ClaimWindow" /\ rt'.ret = -1 /\ rt' # rt) =>
          /\ dev'.window = dev.window
          /\ dev'.dummy_window = dev.dummy_window
          /\ win'.hidden = win.hidden]_vars

(***************************************************************************)
(* The resize observer over the life of devices: devices are created and   *)
(* destroyed while the platform resizes the window and the observer        *)
(* handles the events.                                                     *)
(***************************************************************************)
WatchCreateDevice ==
    CreateDevice(MaxHidden, CreateSteps, {"SDL_PIXELFORMAT_ARGB8888"}, {"ok", "notexture"})
WatchResize == WindowResize(WindowSizes)

NextWatch ==
    \/ WatchCreateDevice
    \/ DestroyDevice
    \/ WatchResize
    \/ OtherEvent
    \/ WindowEventWatch

SpecWatch == InitDevice /\ [][NextWatch]_vars

\* C36: the observer never writes the window_size_changed flag of device
\* data that DestroyDevice or a failed CreateDevice has released.
C36_ObserverLeavesReleasedData ==
    ~win.freed_write

(***************************************************************************)
(* Frames on a claimed window: GetBackbuffer and Present, while the        *)
(* platform resizes the window.                                            *)
(***************************************************************************)
FrameClaimWindow ==
    ClaimWindow({"SDL_PIXELFORMAT_ARGB8888"}, {"ok"},
                {pf \in PlatformOutcomes : pf.recreate /\ pf.current /\ pf.restore})
FrameResize == WindowResize({[w |-> 2, h |-> 2], [w |-> 3, h |-> 2]})
FrameRecreateRead == RecreateRead({"SDL_PIXELFORMAT_ARGB8888"})
FrameRecreateFinish == RecreateFinish({"ok", "notexture"})
FramePresent == Present({0})

NextFrame ==
    \/ FrameClaimWindow
    \/ FrameResize
    \/ WindowEventWatch
    \/ GetBackbufferBegin
    \/ FrameRecreateRead
    \/ FrameRecreateFinish
    \/ GetBackbufferRetry
    \/ FramePresent

SpecFrame == Init /\ [][NextFrame]_vars

\* GetBackbuffer has returned 0 and nothing was called since.
GotBackbuffer == rt.op = "GetBackbuffer" /\ rt.pc = "idle" /\ rt.ret = 0

\* C37: on a device that has claimed the window, a GetBackbuffer of that
\* window violates no assertion, and neither does the Present of that
\* window and the returned texture that follows it.
C37_FrameAssertionsHold ==
    [][/\ (GotBackbuffer' /\ rt' # rt) => rt'.asserted = {}
       /\ (GotBackbuffer /\ rt'.op = "Present") => rt'.asserted = {}]_vars
====
